---- MODULE Spec2Model ----
(***************************************************************************)
(* Verification model of three components, each with its own              *)
(* specification over its own variables (the others' stay as they are):    *)
(*   Spec     the swarm task queue                                         *)
(*            (src/autonomous-agent/core/swarm.py, SwarmOrchestrator)      *)
(*   SelSpec  the scenario selector                                        *)
(*            (src/autonomous-agent/core/scenario_selector.py)             *)
(*   WfSpec   the workflow engine                                          *)
(*            (src/.trae/workflows/workflow_manager_v2.py)                 *)
(*   FnSpec   the engine's execute_step and load_workflow, called alone    *)
(*   FanOutSpec, WfLiveSpec  Spec and WfSpec with the fairness of workers  *)
(*            and of the running call, for the progress properties         *)
(*   AsstSpec the analysis engine's analyze and get_scenario_for_task      *)
(*            (src/autonomous-agent/core/intelligence.py)                  *)
(*   RfxSpec  the error-fix memory                                         *)
(*            (src/autonomous-agent/core/reflexion.py, memory.py)          *)
(*   CompleteSpec  complete_task on a database that also holds task rows   *)
(*            without a parent (parent_id is a nullable column)            *)
(*                                                                         *)
(* The queue is an SQLite file with two tables, tasks and swarm_sessions.  *)
(* Every call of the orchestrator opens its own connection.  The sqlite3   *)
(* module opens a transaction implicitly before the first INSERT / UPDATE  *)
(* of a connection, which takes the database's single write lock; the      *)
(* changes become visible to other connections at conn.commit() and are    *)
(* discarded when the connection goes away without a commit.  A SELECT on  *)
(* a connection without an open transaction reads the committed database.  *)
(*                                                                         *)
(* Columns kept: session_id, main_task, subtask_count, completed_count,    *)
(* status; task_id, parent_id, status, worker_type, result.  The           *)
(* timestamps, the priority and the goal/context part of the payload play  *)
(* no part in any operation's control flow and are left out.               *)
(***************************************************************************)
EXTENDS Integers, Sequences, FiniteSets, TLC

\* ---------------------------------------------------------------- bounds
\* number of concurrent callers (threads or worker processes)
NumConns == 2
\* number of create_swarm_session calls that get as far as the first INSERT
MaxSessions == 2
\* number of task ids handed out over all create_swarm_session calls
MaxTasks == 3
\* number of complete_task calls that commit
MaxCalls == 2

Conns == 1..NumConns
SessionIds == 1..MaxSessions
TaskIds == 1..MaxTasks

\* ------------------------------------------------------------ the values
\* a task id and a session id that no uuid4() call of the program returned:
\* they are in no row
GhostTaskId == MaxTasks + 1
GhostSessionId == MaxSessions + 1
NoTxn == [open |-> FALSE]
NULL == "NULL"
\* NULL in the parent_id column (session ids are numbers here): the id of no
\* session, "session_id = NULL" is true of no row
NoParent == 0

\* class TaskStatus
PENDING == "pending"
RUNNING == "running"
COMPLETED == "completed"
FAILED == "failed"
TaskStatus == {PENDING, RUNNING, COMPLETED, FAILED}

\* a subtask dict is modelled by the value of its 'type' key; NoType is a
\* dict without that key
NoType == "no_type_key"
WorkerTypes == {"coder"}
SubtaskDicts == WorkerTypes \cup {NoType}
MainTasks == {"main"}
Results == {"r1"}

\* all lists of at most n elements of S
RECURSIVE SeqsUpTo(_, _)
SeqsUpTo(S, n) ==
    IF n = 0 THEN {<< >>}
    ELSE LET shorter == SeqsUpTo(S, n - 1)
         IN  shorter \cup {Append(q, x) : q \in {r \in shorter : Len(r) = n - 1}, x \in S}

SubtaskLists == SeqsUpTo(SubtaskDicts, MaxTasks)

\* ----------------------------------------------------------------- state
VARIABLES
    store,          \* the committed database: [sessions, tasks]
    txn,            \* per connection: its uncommitted view, or NoTxn
    lock,           \* the connections holding the write lock of the database file
    pc,             \* per caller: where it is inside its current call
    arg,            \* per caller: the arguments and locals of that call
    nextSid,        \* session ids handed out so far + 1 (uuid4 is fresh)
    nextTid,        \* task ids handed out so far + 1
    lastRead,       \* the value get_parallel_subtasks has just returned
    committedCalls, \* history: per task id handed out, complete_task calls committed
    abortedSids     \* history: session ids of create calls that raised

swarmVars == <<store, txn, lock, pc, arg, nextSid, nextTid, lastRead,
               committedCalls, abortedSids>>

\* the scenario selector: the arguments and the value of the latest call of
\* select and of get_scenario_by_type
VARIABLES
    selIn,          \* select: [complexity, text, flag], or NoCall
    selOut,         \* select: the ScenarioInfo returned, or NoCall
    byTypeIn,       \* get_scenario_by_type: the ScenarioType asked for, or NoCall
    byTypeOut,      \* get_scenario_by_type: the ScenarioInfo returned, or NoCall
    selCatalog,     \* the class attribute ScenarioSelector.SCENARIOS
    allOut          \* get_all_scenarios: the dict returned, or NoCall

selVars == <<selIn, selOut, byTypeIn, byTypeOut, selCatalog, allOut>>

\* the workflow engine (one WorkflowManager, one thread)
VARIABLES
    wfDef,          \* workflows_dir: the definition that the name "wf" loads
    wfHooks,        \* self.hooks: the number of callbacks registered per event
    wfSessions,     \* self.sessions: session id -> session dict
    wfFiles,        \* memory_dir: session id -> content of session-<id>.json
    wfRun,          \* the latest execute_workflow call: position, locals, log
    wfCreated,      \* the outcome of a create_session call that just ended
    wfRegistered,   \* the event of a register_hook call that just ended
    wfCalls         \* history: number of calls that changed self.sessions

wfVars == <<wfDef, wfHooks, wfSessions, wfFiles, wfRun, wfCreated,
            wfRegistered, wfCalls>>

\* execute_step and load_workflow called on their own: the arguments and
\* the outcome of the latest call
VARIABLES
    stepIn,         \* execute_step: [session, step], or NoCall
    stepOut,        \* execute_step: the dict returned or the exception, or NoCall
    lookupIn,       \* load_workflow: the three files of the name, or NoCall
    lookupOut       \* load_workflow / create_session: the outcome, or NoCall

fnVars == <<stepIn, stepOut, lookupIn, lookupOut>>

\* IntelligentAssistant.analyze and get_scenario_for_task called on one task
\* description: the description and the dict each returned
VARIABLES
    asstIn,         \* the task description, or NoCall
    analyzeOut,     \* analyze: the dict returned, or NoCall
    forTaskOut      \* get_scenario_for_task: the dict returned, or NoCall

asstVars == <<asstIn, analyzeOut, forTaskOut>>

\* ReflexionCore over its MemoryManager
VARIABLES
    memFiles,       \* memory_dir: path of a note file -> the notes appended to it
    reflectOut,     \* reflect: the error text and the dict returned, or NoCall
    rfxRecorded,    \* history: the error texts record_fix was called with
    rfxCalls        \* history: number of record_fix calls

rfxVars == <<memFiles, reflectOut, rfxRecorded, rfxCalls>>

vars == <<swarmVars, selVars, wfVars, fnVars, asstVars, rfxVars>>

\* no call made yet / no call in progress
NoCall == [called |-> FALSE]
NoRun == [pc |-> "idle"]

\* class ScenarioType
PROMPT_ENHANCEMENT == "prompt_enhancement"
SKILL_REUSE == "skill_reuse"
PLAN_REVIEW == "plan_review"
LEAD_MEMBER == "lead_member"
COMPOSITE == "composite"
ScenarioType == {PROMPT_ENHANCEMENT, SKILL_REUSE, PLAN_REVIEW, LEAD_MEMBER, COMPOSITE}

\* the bounds of the complexity scale (the complexity_range of the first and
\* of the last catalog entry)
MinComplexity == 1
MaxComplexity == 10

\* ScenarioInfo (name, description and best_practices are texts that no
\* operation reads)
ScenarioInfo(type, lo, hi, confirm, agents, steps) ==
    [scenario_type |-> type, complexity_range |-> <<lo, hi>>,
     requires_confirmation |-> confirm, max_agents |-> agents,
     estimated_steps |-> steps]

\* ScenarioSelector.SCENARIOS
SCENARIOS ==
    (PROMPT_ENHANCEMENT :> ScenarioInfo(PROMPT_ENHANCEMENT, 1, 2, FALSE, 1, 1))
    @@ (SKILL_REUSE :> ScenarioInfo(SKILL_REUSE, 3, 5, FALSE, 1, 2))
    @@ (PLAN_REVIEW :> ScenarioInfo(PLAN_REVIEW, 3, 5, FALSE, 3, 4))
    @@ (LEAD_MEMBER :> ScenarioInfo(LEAD_MEMBER, 6, 10, TRUE, 5, 5))
    @@ (COMPOSITE :> ScenarioInfo(COMPOSITE, 6, 10, TRUE, 10, 7))

\* the selector and the engine untouched: their state under Spec
SelIdle ==
    /\ selIn = NoCall
    /\ selOut = NoCall
    /\ byTypeIn = NoCall
    /\ byTypeOut = NoCall
    /\ selCatalog = SCENARIOS
    /\ allOut = NoCall

\* self.hooks: the four events, none with a callback
HookEvents == {"pre_execute", "post_execute", "on_error", "on_success"}
NoHooks == [e \in HookEvents |-> 0]

FnIdle ==
    /\ stepIn = NoCall
    /\ stepOut = NoCall
    /\ lookupIn = NoCall
    /\ lookupOut = NoCall

\* the memory directory just made, no call of ReflexionCore yet
RfxIdle ==
    /\ memFiles = << >>
    /\ reflectOut = NoCall
    /\ rfxRecorded = {}
    /\ rfxCalls = 0

AsstIdle ==
    /\ asstIn = NoCall
    /\ analyzeOut = NoCall
    /\ forTaskOut = NoCall

WfIdle ==
    /\ wfDef = << >>
    /\ wfHooks = NoHooks
    /\ wfSessions = << >>
    /\ wfFiles = << >>
    /\ wfRun = NoRun
    /\ wfCreated = NoCall
    /\ wfRegistered = NoCall
    /\ wfCalls = 0

NoArg == [op |-> "none"]
NoRead == [sid |-> GhostSessionId, rows |-> {}, returned |-> FALSE]

\* --------------------------------------------------------- the two tables
\* _init_db: both tables exist and are empty
EmptyStore == [sessions |-> << >>, tasks |-> << >>]

\* variant of InsertSession: subtask_count is not in the INSERT and takes its
\* column default 0
InsertSessionDefaultCount(db, sid, main, n) ==
    [db EXCEPT !.sessions = @ @@ (sid :>
        [main_task |-> main, subtask_count |-> 0,
         completed_count |-> 0, status |-> "running"])]

\* INSERT INTO swarm_sessions (session_id, main_task, subtask_count, created_at):
\* completed_count and status take the column defaults 0 and 'running'
InsertSession(db, sid, main, n) ==
    [db EXCEPT !.sessions = @ @@ (sid :>
        [main_task |-> main, subtask_count |-> n,
         completed_count |-> 0, status |-> "running"])]

\* variant of InsertTask: the task id is bound to the parent_id column too
InsertTaskWrongParent(db, tid, sid, wtype) ==
    [db EXCEPT !.tasks = @ @@ (tid :>
        [parent_id |-> tid, status |-> PENDING,
         worker_type |-> wtype, result |-> NULL])]

\* INSERT INTO tasks (task_id, parent_id, status, ..., worker_type, ...)
InsertTask(db, tid, sid, wtype) ==
    [db EXCEPT !.tasks = @ @@ (tid :>
        [parent_id |-> sid, status |-> PENDING,
         worker_type |-> wtype, result |-> NULL])]

\* variant of UpdateTaskCompleted: the UPDATE writes TaskStatus.RUNNING
UpdateTaskRunning(db, tid, r) ==
    IF tid \in DOMAIN db.tasks
    THEN [db EXCEPT !.tasks[tid].status = RUNNING, !.tasks[tid].result = r]
    ELSE db

\* variant of UpdateTaskCompleted: an upsert, INSERT OR REPLACE INTO tasks
\* (task_id, status, result, completed_at); the other columns are NULL
UpsertTaskCompleted(db, tid, r) ==
    IF tid \in DOMAIN db.tasks
    THEN [db EXCEPT !.tasks[tid].status = COMPLETED, !.tasks[tid].result = r]
    ELSE [db EXCEPT !.tasks = @ @@ (tid :>
            [parent_id |-> NoParent, status |-> COMPLETED,
             worker_type |-> NULL, result |-> r])]

\* variant of UpdateTaskCompleted: the UPDATE without "WHERE task_id = ?"
UpdateEveryTaskCompleted(db, tid, r) ==
    [db EXCEPT !.tasks = [u \in DOMAIN @ |->
                            [@[u] EXCEPT !.status = COMPLETED, !.result = r]]]

\* UPDATE tasks SET status = 'completed', result = ?, completed_at = ?
\* WHERE task_id = ?   (no row matches an unknown id: nothing changes)
UpdateTaskCompleted(db, tid, r) ==
    IF tid \in DOMAIN db.tasks
    THEN [db EXCEPT !.tasks[tid].status = COMPLETED, !.tasks[tid].result = r]
    ELSE db

\* SELECT parent_id FROM tasks WHERE task_id = ?  ; fetchone()
\* the row as a sequence of columns, or << >> for None
SelectParent(db, tid) ==
    IF tid \in DOMAIN db.tasks THEN << db.tasks[tid].parent_id >> ELSE << >>

\* variant of IncrementCompleted: the UPDATE of the counter matches no row
IncrementCompletedNoRow(db, sid) == db

\* UPDATE swarm_sessions SET completed_count = completed_count + 1
\* WHERE session_id = ?
IncrementCompleted(db, sid) ==
    IF sid \in DOMAIN db.sessions
    THEN [db EXCEPT !.sessions[sid].completed_count = @ + 1]
    ELSE db

\* variant of SelectPending: the query without "parent_id = ?"
SelectPendingAnySession(db, sid) ==
    {[task_id |-> t, subagent_type |-> db.tasks[t].worker_type] :
        t \in {u \in DOMAIN db.tasks : db.tasks[u].status = PENDING}}

\* variant of SelectPending: the query without "status = ?"
SelectAnyStatus(db, sid) ==
    {[task_id |-> t, subagent_type |-> db.tasks[t].worker_type] :
        t \in {u \in DOMAIN db.tasks : db.tasks[u].parent_id = sid}}

\* SELECT task_id, worker_type, payload FROM tasks
\* WHERE parent_id = ? AND status = 'pending', turned into the list of dicts
\* (the order of the rows is not specified: a set)
SelectPending(db, sid) ==
    {[task_id |-> t, subagent_type |-> db.tasks[t].worker_type] :
        t \in {u \in DOMAIN db.tasks :
                 db.tasks[u].parent_id = sid /\ db.tasks[u].status = PENDING}}

\* variant of CanBeginWrite: writers are not serialised
CanBeginWriteUnlocked(c) == TRUE

\* the implicit BEGIN before the first INSERT / UPDATE of a connection takes
\* the database's write lock: it succeeds only while no other connection
\* holds it
CanBeginWrite(c) == lock = {}

\* conn.commit(): the connection's view becomes the committed database
Commit(db, work) == work

\* variant of CloseWithoutCommit: what was written so far is kept
CloseKeepsWrites(db, work) == work

\* a connection that goes away without conn.commit() (an exception left the
\* method) has its transaction rolled back
CloseWithoutCommit(db, work) == db

\* the number of complete_task calls committed so far
RECURSIVE SumOver(_, _)
SumOver(f, S) ==
    IF S = {} THEN 0
    ELSE LET x == CHOOSE y \in S : TRUE IN f[x] + SumOver(f, S \ {x})

TotalCalls == SumOver(committedCalls, DOMAIN committedCalls)

\* -------------------------------------------------------------- the state
\* the queue after SwarmOrchestrator.__init__
SwarmInit ==
    /\ store = EmptyStore
    /\ txn = [c \in Conns |-> NoTxn]
    /\ lock = {}
    /\ pc = [c \in Conns |-> "idle"]
    /\ arg = [c \in Conns |-> NoArg]
    /\ nextSid = 1
    /\ nextTid = 1
    /\ lastRead = NoRead
    /\ committedCalls = [t \in TaskIds |-> 0]
    /\ abortedSids = {}

Init == SwarmInit /\ SelIdle /\ WfIdle /\ FnIdle /\ AsstIdle /\ RfxIdle

\* the callers are interchangeable and keep nothing between two calls: a new
\* call is made by the first caller that is not inside one
CanCall(c) == pc[c] = "idle" /\ \A d \in 1..(c - 1) : pc[d] # "idle"

\* ---------------------------------------------------- create_swarm_session
\* lines 71-79: a fresh session id, a connection, and the INSERT of the
\* session row, which opens the transaction
CreateInsertSession(c, main, subtasks) ==
    /\ CanCall(c)
    /\ nextSid <= MaxSessions
    /\ nextTid + Len(subtasks) <= MaxTasks + 1
    /\ CanBeginWrite(c)
    /\ lock' = {c}
    /\ txn' = [txn EXCEPT ![c] = InsertSession(store, nextSid, main, Len(subtasks))]
    /\ arg' = [arg EXCEPT ![c] = [op |-> "create", sid |-> nextSid, main |-> main,
                                  subtasks |-> subtasks, i |-> 1]]
    /\ pc' = [pc EXCEPT ![c] = "cs_loop"]
    /\ nextSid' = nextSid + 1
    /\ lastRead' = NoRead
    /\ UNCHANGED <<store, nextTid, committedCalls, abortedSids>>
    /\ UNCHANGED <<selVars, wfVars, fnVars, asstVars, rfxVars>>

\* lines 81-86, one iteration: a fresh task id and the INSERT of the task row
CreateInsertTask(c) ==
    /\ pc[c] = "cs_loop"
    /\ arg[c].i <= Len(arg[c].subtasks)
    /\ arg[c].subtasks[arg[c].i] # NoType
    /\ txn' = [txn EXCEPT ![c] = InsertTask(@, nextTid, arg[c].sid,
                                            arg[c].subtasks[arg[c].i])]
    /\ arg' = [arg EXCEPT ![c].i = @ + 1]
    /\ nextTid' = nextTid + 1
    /\ lastRead' = NoRead
    /\ UNCHANGED <<store, lock, pc, nextSid, committedCalls, abortedSids>>
    /\ UNCHANGED <<selVars, wfVars, fnVars, asstVars, rfxVars>>

\* line 85: subtask['type'] on a dict without that key raises KeyError, which
\* leaves the method before conn.commit()
CreateKeyError(c) ==
    /\ pc[c] = "cs_loop"
    /\ arg[c].i <= Len(arg[c].subtasks)
    /\ arg[c].subtasks[arg[c].i] = NoType
    /\ pc' = [pc EXCEPT ![c] = "raised"]
    /\ abortedSids' = abortedSids \cup {arg[c].sid}
    /\ lastRead' = NoRead
    /\ UNCHANGED <<store, txn, lock, arg, nextSid, nextTid, committedCalls>>
    /\ UNCHANGED <<selVars, wfVars, fnVars, asstVars, rfxVars>>

\* lines 88-91: conn.commit(), conn.close(), return session_id
CreateCommit(c) ==
    /\ pc[c] = "cs_loop"
    /\ arg[c].i > Len(arg[c].subtasks)
    /\ store' = Commit(store, txn[c])
    /\ txn' = [txn EXCEPT ![c] = NoTxn]
    /\ lock' = lock \ {c}
    /\ pc' = [pc EXCEPT ![c] = "idle"]
    /\ arg' = [arg EXCEPT ![c] = NoArg]
    /\ lastRead' = NoRead
    /\ UNCHANGED <<nextSid, nextTid, committedCalls, abortedSids>>
    /\ UNCHANGED <<selVars, wfVars, fnVars, asstVars, rfxVars>>

\* variant of GetParallelSubtasks: the read claims the rows it returns, an
\* UPDATE to 'running' committed with it
GetParallelSubtasksClaims(c, sid) ==
    /\ CanCall(c)
    /\ CanBeginWrite(c)
    /\ lastRead' = [sid |-> sid, rows |-> SelectPending(store, sid),
                    returned |-> TRUE]
    /\ store' = [store EXCEPT !.tasks =
                   [t \in DOMAIN @ |->
                      IF @[t].parent_id = sid /\ @[t].status = PENDING
                      THEN [@[t] EXCEPT !.status = RUNNING]
                      ELSE @[t]]]
    /\ UNCHANGED <<txn, lock, pc, arg, nextSid, nextTid, committedCalls,
                   abortedSids>>
    /\ UNCHANGED <<selVars, wfVars, fnVars, asstVars, rfxVars>>

\* ---------------------------------------------------- get_parallel_subtasks
\* lines 93-114: one SELECT on a connection without a transaction; it reads
\* the committed database and changes nothing
GetParallelSubtasks(c, sid) ==
    /\ CanCall(c)
    /\ lastRead' = [sid |-> sid, rows |-> SelectPending(store, sid),
                    returned |-> TRUE]
    /\ UNCHANGED <<store, txn, lock, pc, arg, nextSid, nextTid, committedCalls,
                   abortedSids>>
    /\ UNCHANGED <<selVars, wfVars, fnVars, asstVars, rfxVars>>

\* ------------------------------------------------------------ complete_task
\* variant of CompleteUpdateTask: the connection is in autocommit mode, the
\* UPDATE of the task row is committed on its own
CompleteUpdateTaskAutocommit(c, tid, r) ==
    /\ CanCall(c)
    /\ TotalCalls < MaxCalls
    /\ CanBeginWrite(c)
    /\ lock' = {c}
    /\ store' = UpdateTaskCompleted(store, tid, r)
    /\ txn' = [txn EXCEPT ![c] = UpdateTaskCompleted(store, tid, r)]
    /\ arg' = [arg EXCEPT ![c] = [op |-> "complete", task_id |-> tid, result |-> r]]
    /\ pc' = [pc EXCEPT ![c] = "ct_select"]
    /\ lastRead' = NoRead
    /\ UNCHANGED <<nextSid, nextTid, committedCalls, abortedSids>>
    /\ UNCHANGED <<selVars, wfVars, fnVars, asstVars, rfxVars>>

\* lines 117-123: a connection and the UPDATE of the task row, which opens
\* the transaction
CompleteUpdateTask(c, tid, r) ==
    /\ CanCall(c)
    /\ TotalCalls < MaxCalls
    /\ CanBeginWrite(c)
    /\ lock' = {c}
    /\ txn' = [txn EXCEPT ![c] = UpdateTaskCompleted(store, tid, r)]
    /\ arg' = [arg EXCEPT ![c] = [op |-> "complete", task_id |-> tid, result |-> r]]
    /\ pc' = [pc EXCEPT ![c] = "ct_select"]
    /\ lastRead' = NoRead
    /\ UNCHANGED <<store, nextSid, nextTid, committedCalls, abortedSids>>
    /\ UNCHANGED <<selVars, wfVars, fnVars, asstVars, rfxVars>>

\* lines 124-132: fetch the task's parent_id inside the transaction and, if a
\* row came back, increment that session's counter
CompleteIncrement(c) ==
    /\ pc[c] = "ct_select"
    /\ LET row == SelectParent(txn[c], arg[c].task_id)
       IN  txn' = [txn EXCEPT ![c] = IF row # << >>
                                     THEN IncrementCompleted(@, row[1])
                                     ELSE @]
    /\ pc' = [pc EXCEPT ![c] = "ct_commit"]
    /\ lastRead' = NoRead
    /\ UNCHANGED <<store, lock, arg, nextSid, nextTid, committedCalls,
                   abortedSids>>
    /\ UNCHANGED <<selVars, wfVars, fnVars, asstVars, rfxVars>>

\* lines 133-134: conn.commit(), conn.close()
CompleteCommit(c) ==
    /\ pc[c] = "ct_commit"
    /\ store' = Commit(store, txn[c])
    /\ txn' = [txn EXCEPT ![c] = NoTxn]
    /\ lock' = lock \ {c}
    /\ pc' = [pc EXCEPT ![c] = "idle"]
    /\ arg' = [arg EXCEPT ![c] = NoArg]
    /\ committedCalls' = IF arg[c].task_id \in TaskIds
                       THEN [committedCalls EXCEPT ![arg[c].task_id] = @ + 1]
                       ELSE committedCalls
    /\ lastRead' = NoRead
    /\ UNCHANGED <<nextSid, nextTid, abortedSids>>
    /\ UNCHANGED <<selVars, wfVars, fnVars, asstVars, rfxVars>>

\* ------------------------------------------------------------- store errors
\* lines 76 / 120: the first write of a call cannot get the write lock because
\* another connection holds it until the busy timeout of sqlite3.connect runs
\* out; cursor.execute raises OperationalError and nothing was written
BusyTimeout(c) ==
    /\ CanCall(c)
    /\ lock # {}
    /\ c \notin lock
    /\ pc' = [pc EXCEPT ![c] = "raised"]
    /\ arg' = [arg EXCEPT ![c] = [op |-> "busy"]]
    /\ lastRead' = NoRead
    /\ UNCHANGED <<store, txn, lock, nextSid, nextTid, committedCalls,
                   abortedSids>>
    /\ UNCHANGED <<selVars, wfVars, fnVars, asstVars, rfxVars>>

\* lines 83 / 88 / 129 / 133: a later cursor.execute or conn.commit of an open
\* transaction raises sqlite3.Error (disk full, I/O error); the exception
\* leaves the method before conn.commit() has taken effect
StatementRaises(c) ==
    /\ pc[c] \in {"cs_loop", "ct_select", "ct_commit"}
    /\ pc' = [pc EXCEPT ![c] = "raised"]
    /\ abortedSids' = IF arg[c].op = "create"
                      THEN abortedSids \cup {arg[c].sid}
                      ELSE abortedSids
    /\ lastRead' = NoRead
    /\ UNCHANGED <<store, txn, lock, arg, nextSid, nextTid, committedCalls>>
    /\ UNCHANGED <<selVars, wfVars, fnVars, asstVars, rfxVars>>

\* the exception has left the method: the connection object is unreachable
\* and is closed without a commit, which rolls back its transaction and
\* releases the write lock
DropConnection(c) ==
    /\ pc[c] = "raised"
    /\ store' = IF txn[c] # NoTxn THEN CloseWithoutCommit(store, txn[c]) ELSE store
    /\ lock' = lock \ {c}
    /\ txn' = [txn EXCEPT ![c] = NoTxn]
    /\ pc' = [pc EXCEPT ![c] = "idle"]
    /\ arg' = [arg EXCEPT ![c] = NoArg]
    /\ lastRead' = NoRead
    /\ UNCHANGED <<nextSid, nextTid, committedCalls, abortedSids>>
    /\ UNCHANGED <<selVars, wfVars, fnVars, asstVars, rfxVars>>

\* ------------------------------------------------------- the specification
\* the ids a caller can pass: a task id read from the committed table, a
\* session id handed out by some create_swarm_session call, or an id that
\* exists in no row
KnownTaskIds == DOMAIN store.tasks \cup {GhostTaskId}
KnownSessionIds == (1..(nextSid - 1)) \cup {GhostSessionId}

Next ==
    \/ \E c \in Conns, main \in MainTasks, subtasks \in SubtaskLists :
         CreateInsertSession(c, main, subtasks)
    \/ \E c \in Conns : CreateInsertTask(c)
    \/ \E c \in Conns : CreateKeyError(c)
    \/ \E c \in Conns : CreateCommit(c)
    \/ \E c \in Conns, sid \in KnownSessionIds : GetParallelSubtasks(c, sid)
    \/ \E c \in Conns, tid \in KnownTaskIds, r \in Results : CompleteUpdateTask(c, tid, r)
    \/ \E c \in Conns : CompleteIncrement(c)
    \/ \E c \in Conns : CompleteCommit(c)
    \/ \E c \in Conns : BusyTimeout(c)
    \/ \E c \in Conns : StatementRaises(c)
    \/ \E c \in Conns : DropConnection(c)

Spec == Init /\ [][Next]_vars

\* ============================================================ swarm queue
\* the task rows of a session, and those of them that are completed / pending
TasksOf(db, sid) == {t \in DOMAIN db.tasks : db.tasks[t].parent_id = sid}
CompletedOf(db, sid) == {t \in TasksOf(db, sid) : db.tasks[t].status = COMPLETED}
PendingOf(db, sid) == {t \in TasksOf(db, sid) : db.tasks[t].status = PENDING}

\* the number of complete_task calls committed for task id t
CallsOn(t) == IF t \in DOMAIN committedCalls THEN committedCalls[t] ELSE 0

\* caller c is at the conn.commit() of complete_task and this step is it
CompleteCommits(c) == pc[c] = "ct_commit" /\ pc'[c] = "idle"
\* caller c is at the conn.commit() of create_swarm_session and this step is it
CreateCommits(c) == pc[c] = "cs_loop" /\ pc'[c] = "idle"

\* C1: no lost updates. When complete_task has committed exactly once for
\* each of the N tasks of a session, whatever the callers and the order of
\* their calls, the session's completed_count is N.
C1_NoLostUpdates ==
    \A sid \in DOMAIN store.sessions :
        (\A t \in TasksOf(store, sid) : CallsOn(t) = 1)
        => /\ store.sessions[sid].completed_count = Cardinality(TasksOf(store, sid))
           /\ store.sessions[sid].completed_count = store.sessions[sid].subtask_count

\* C1 witness: a session of at least two tasks, each completed by exactly one
\* committed call, whose counter shows them all.
C1_Witness ==
    \E sid \in DOMAIN store.sessions :
        /\ Cardinality(TasksOf(store, sid)) >= 2
        /\ \A t \in TasksOf(store, sid) : CallsOn(t) = 1
        /\ store.sessions[sid].completed_count = Cardinality(TasksOf(store, sid))

\* C2 (as claimed): a session with subtasks has status 'completed' exactly
\* when completed_count = subtask_count. (A session created with an empty
\* list has 0 = 0 from the start and is left out here.)
C2_StatusCompletedIffAllDone ==
    \A sid \in DOMAIN store.sessions :
        store.sessions[sid].subtask_count > 0
        => (store.sessions[sid].status = "completed"
            <=> store.sessions[sid].completed_count = store.sessions[sid].subtask_count)

\* C3 (as claimed): in every reachable state, completed_count <= subtask_count
\* for every session.
C3_CountAtMostSubtasks ==
    \A sid \in DOMAIN store.sessions :
        store.sessions[sid].completed_count <= store.sessions[sid].subtask_count

\* C4 (as claimed): a complete_task call that commits for a task that is
\* already completed leaves the parent session's completed_count unchanged.
C4_SecondCompletionKeepsCount ==
    [][\A c \in Conns :
         (/\ CompleteCommits(c)
          /\ arg[c].task_id \in DOMAIN store.tasks
          /\ store.tasks[arg[c].task_id].status = COMPLETED)
         => LET sid == store.tasks[arg[c].task_id].parent_id
            IN  store'.sessions[sid].completed_count = store.sessions[sid].completed_count
      ]_vars

\* C5: the task update and the counter increment are one unit. In every
\* committed state in which no task was completed more than once, each
\* session's completed_count is the number of its completed tasks.
C5_CountMatchesCompletedTasks ==
    (\A t \in DOMAIN committedCalls : committedCalls[t] <= 1)
    => \A sid \in DOMAIN store.sessions :
         store.sessions[sid].completed_count = Cardinality(CompletedOf(store, sid))

\* C5 witness: a complete_task call stands between its two writes (its own
\* view has the task completed and the counter not yet incremented, the
\* committed tables show the task pending) while another task of the same
\* session is already completed and counted.
C5_Witness ==
    \E c \in Conns :
        /\ pc[c] = "ct_select"
        /\ arg[c].task_id \in DOMAIN store.tasks
        /\ store.tasks[arg[c].task_id].status = PENDING
        /\ txn[c].tasks[arg[c].task_id].status = COMPLETED
        /\ LET sid == store.tasks[arg[c].task_id].parent_id
           IN  /\ txn[c].sessions[sid].completed_count = 1
               /\ store.sessions[sid].completed_count = 1
               /\ Cardinality(CompletedOf(store, sid)) = 1

\* C6: the commit of create_swarm_session(main_task, subtasks) with N valid
\* subtasks adds exactly one session row (subtask_count N, completed_count 0,
\* status running) and exactly N task rows, each pending with the new
\* session as parent, and changes no row that was there before.
C6_CreateAddsSessionAndTasks ==
    [][\A c \in Conns :
         CreateCommits(c)
         => LET sid == arg[c].sid
                n == Len(arg[c].subtasks)
                added == DOMAIN store'.tasks \ DOMAIN store.tasks
            IN  /\ sid \notin DOMAIN store.sessions
                /\ DOMAIN store'.sessions = DOMAIN store.sessions \cup {sid}
                /\ store'.sessions[sid] =
                     [main_task |-> arg[c].main, subtask_count |-> n,
                      completed_count |-> 0, status |-> "running"]
                /\ DOMAIN store.tasks \subseteq DOMAIN store'.tasks
                /\ Cardinality(added) = n
                /\ \A t \in added : /\ store'.tasks[t].status = PENDING
                                    /\ store'.tasks[t].parent_id = sid
                                    /\ store'.tasks[t].result = NULL
                /\ {store'.tasks[t].worker_type : t \in added}
                     = {arg[c].subtasks[k] : k \in 1..n}
                /\ \A s \in DOMAIN store.sessions : store'.sessions[s] = store.sessions[s]
                /\ \A t \in DOMAIN store.tasks : store'.tasks[t] = store.tasks[t]
      ]_vars

\* C6 witness: a second session with two pending tasks has been committed
\* next to an earlier session whose task is already completed.
C6_Witness ==
    \E s1, s2 \in DOMAIN store.sessions :
        /\ s1 < s2
        /\ Cardinality(CompletedOf(store, s1)) = 1
        /\ store.sessions[s2].subtask_count = 2
        /\ Cardinality(PendingOf(store, s2)) = 2
        /\ store.sessions[s2].completed_count = 0

\* C7: create_swarm_session is all-or-nothing. The session row and the task
\* rows of a call that raised are in no committed state, and no
\* get_parallel_subtasks call returns any of them.
C7_FailedCreateLeavesNoRows ==
    \A sid \in abortedSids :
        /\ sid \notin DOMAIN store.sessions
        /\ TasksOf(store, sid) = {}
        /\ (lastRead.returned /\ lastRead.sid = sid) => lastRead.rows = {}

\* C7 witness: a create call raised after it had inserted its session row and
\* a task row, its connection is gone, and a reader asking for that session
\* gets nothing.
C7_Witness ==
    /\ \A c \in Conns : pc[c] = "idle"
    /\ nextTid > 1
    /\ store.tasks = << >>
    /\ lastRead.returned
    /\ lastRead.sid \in abortedSids

\* the rows get_parallel_subtasks has just returned are exactly the pending
\* tasks of the session asked for
ReadIsExact ==
    lastRead.returned
    => /\ \A row \in lastRead.rows :
            /\ row.task_id \in DOMAIN store.tasks
            /\ store.tasks[row.task_id].parent_id = lastRead.sid
            /\ store.tasks[row.task_id].status = PENDING
            /\ row.subagent_type = store.tasks[row.task_id].worker_type
       /\ \A t \in DOMAIN store.tasks :
            (store.tasks[t].parent_id = lastRead.sid /\ store.tasks[t].status = PENDING)
            => \E row \in lastRead.rows : row.task_id = t

\* C8: get_parallel_subtasks(s) returns exactly the tasks with parent_id s and
\* status pending; and when complete_task commits for a pending task of s,
\* what get_parallel_subtasks(s) returns is what it returned before minus
\* that task: one element fewer.
C8_PendingExactlyAndMinusOne ==
    [][/\ ReadIsExact'
       /\ \A c \in Conns :
            (/\ CompleteCommits(c)
             /\ arg[c].task_id \in DOMAIN store.tasks
             /\ store.tasks[arg[c].task_id].status = PENDING)
            => LET t == arg[c].task_id
                   sid == store.tasks[t].parent_id
                   gone == {row \in SelectPending(store, sid) : row.task_id = t}
               IN  /\ Cardinality(gone) = 1
                   /\ SelectPending(store', sid) = SelectPending(store, sid) \ gone
                   /\ Cardinality(SelectPending(store', sid))
                        = Cardinality(SelectPending(store, sid)) - 1
      ]_vars

\* C8 witness: of a session's two tasks one has been completed, and
\* get_parallel_subtasks has just returned the other one alone, while a task
\* of another session is pending too.
C8_Witness ==
    /\ lastRead.returned
    /\ Cardinality(lastRead.rows) = 1
    /\ Cardinality(CompletedOf(store, lastRead.sid)) = 1
    /\ \E other \in DOMAIN store.sessions :
         other # lastRead.sid /\ PendingOf(store, other) # {}

\* C9: monotonic visibility. A committed task row that is not pending is not
\* pending in the next committed state either (and is still there), and a
\* get_parallel_subtasks call returns no task for which a complete_task call
\* had committed before it.
C9_MonotonicVisibility ==
    [][/\ \A t \in DOMAIN store.tasks :
            store.tasks[t].status # PENDING
            => t \in DOMAIN store'.tasks /\ store'.tasks[t].status # PENDING
       /\ lastRead'.returned
            => \A row \in lastRead'.rows :
                 CallsOn(row.task_id) = 0
      ]_vars

\* C9 witness: a read that ran while another caller was inside complete_task:
\* one task of the session was completed before the read and is not in the
\* result; the task of the call in flight is still in it.
C9_Witness ==
    /\ lastRead.returned
    /\ \E t \in TasksOf(store, lastRead.sid) :
         /\ CallsOn(t) >= 1
         /\ \A row \in lastRead.rows : row.task_id # t
    /\ \E c \in Conns :
         /\ pc[c] \in {"ct_select", "ct_commit"}
         /\ \E row \in lastRead.rows : row.task_id = arg[c].task_id

\* C10 (as claimed): every change of a task's status is pending -> running
\* or running -> completed / failed.
C10_StatusPathThroughRunning ==
    [][\A t \in DOMAIN store.tasks :
         (t \in DOMAIN store'.tasks /\ store'.tasks[t].status # store.tasks[t].status)
         => \/ store.tasks[t].status = PENDING /\ store'.tasks[t].status = RUNNING
            \/ store.tasks[t].status = RUNNING
                 /\ store'.tasks[t].status \in {COMPLETED, FAILED}
      ]_vars

\* C10 (amended): every change of a task's status is pending -> completed: a
\* task is completed straight from pending, the queue never writes running
\* or failed, and no operation moves a status backward or removes a row.
C10_StatusPendingToCompleted ==
    [][\A t \in DOMAIN store.tasks :
         /\ t \in DOMAIN store'.tasks
         /\ store'.tasks[t].status # store.tasks[t].status
              => store.tasks[t].status = PENDING /\ store'.tasks[t].status = COMPLETED
      ]_vars

\* C10 witness: a task that was inserted as pending is completed.
C10_Witness ==
    \E t \in DOMAIN store.tasks :
        store.tasks[t].status = COMPLETED /\ CallsOn(t) = 1

\* ====================================================== scenario selector
\* how far outside 1..10 the complexities handed to select go
OutOfRange == 3

\* the values of has_matching_skill (bool = None) and Python's truth test
\* "if has_matching_skill:"
SkillFlags == {"True", "False", "None"}
Truthy(flag) == flag = "True"

\* variant of Select: the middle branch tests complexity < 5
SelectOffByOne(complexity, text, flag) ==
    IF complexity <= 2 THEN SCENARIOS[PROMPT_ENHANCEMENT]
    ELSE IF complexity < 5
         THEN IF Truthy(flag) THEN SCENARIOS[SKILL_REUSE] ELSE SCENARIOS[PLAN_REVIEW]
         ELSE SCENARIOS[LEAD_MEMBER]

\* variant of Select: the last branch follows the decision tree of the module
\* docstring (Q3) and returns the composite scenario without a matching skill
SelectWithComposite(complexity, text, flag) ==
    IF complexity <= 2 THEN SCENARIOS[PROMPT_ENHANCEMENT]
    ELSE IF complexity <= 5
         THEN IF Truthy(flag) THEN SCENARIOS[SKILL_REUSE] ELSE SCENARIOS[PLAN_REVIEW]
         ELSE IF Truthy(flag) THEN SCENARIOS[LEAD_MEMBER] ELSE SCENARIOS[COMPOSITE]

\* variant of Select: the first branch tests the catalog range 1 <= c <= 2
SelectRangeChecked(complexity, text, flag) ==
    IF 1 <= complexity /\ complexity <= 2 THEN SCENARIOS[PROMPT_ENHANCEMENT]
    ELSE IF complexity <= 5
         THEN IF Truthy(flag) THEN SCENARIOS[SKILL_REUSE] ELSE SCENARIOS[PLAN_REVIEW]
         ELSE SCENARIOS[LEAD_MEMBER]

\* variant of Select: a task text that asks for the whole system is taken
\* to the last branch
SelectByText(complexity, text, flag) ==
    IF text = "build the whole system" THEN SCENARIOS[LEAD_MEMBER]
    ELSE IF complexity <= 2 THEN SCENARIOS[PROMPT_ENHANCEMENT]
    ELSE IF complexity <= 5
         THEN IF Truthy(flag) THEN SCENARIOS[SKILL_REUSE] ELSE SCENARIOS[PLAN_REVIEW]
         ELSE SCENARIOS[LEAD_MEMBER]

\* ScenarioSelector.select
Select(complexity, text, flag) ==
    IF complexity <= 2 THEN SCENARIOS[PROMPT_ENHANCEMENT]
    ELSE IF complexity <= 5
         THEN IF Truthy(flag) THEN SCENARIOS[SKILL_REUSE] ELSE SCENARIOS[PLAN_REVIEW]
         ELSE SCENARIOS[LEAD_MEMBER]

\* ScenarioSelector.get_scenario_by_type
GetScenarioByType(type) == SCENARIOS[type]

\* the inputs: complexities inside and outside the scale, two task texts
SelComplexities == (MinComplexity - OutOfRange)..(MaxComplexity + OutOfRange)
TaskTexts == {"fix typo", "build the whole system"}

SelInit ==
    /\ SwarmInit
    /\ WfIdle
    /\ FnIdle
    /\ AsstIdle
    /\ RfxIdle
    /\ selIn \in [complexity : SelComplexities, text : TaskTexts, flag : SkillFlags]
    /\ selOut = NoCall
    /\ byTypeIn \in ScenarioType
    /\ byTypeOut = NoCall
    /\ selCatalog = SCENARIOS
    /\ allOut = NoCall

\* the call select(complexity, task_description, has_matching_skill)
SelectCall ==
    /\ selOut = NoCall
    /\ selOut' = Select(selIn.complexity, selIn.text, selIn.flag)
    /\ UNCHANGED <<selIn, byTypeIn, byTypeOut, selCatalog, allOut>>
    /\ UNCHANGED <<swarmVars, wfVars, fnVars, asstVars, rfxVars>>

\* the call get_scenario_by_type(scenario_type)
ByTypeCall ==
    /\ byTypeOut = NoCall
    /\ byTypeOut' = GetScenarioByType(byTypeIn)
    /\ UNCHANGED <<selIn, selOut, byTypeIn, selCatalog, allOut>>
    /\ UNCHANGED <<swarmVars, wfVars, fnVars, asstVars, rfxVars>>

\* the call get_all_scenarios(): the dict itself
GetAllCall ==
    /\ allOut = NoCall
    /\ allOut' = [called |-> TRUE, returned |-> selCatalog]
    /\ UNCHANGED <<selIn, selOut, byTypeIn, byTypeOut, selCatalog>>
    /\ UNCHANGED <<swarmVars, wfVars, fnVars, asstVars, rfxVars>>

SelNext == SelectCall \/ ByTypeCall \/ GetAllCall

SelSpec == SelInit /\ [][SelNext]_vars

\* select has returned / get_scenario_by_type has returned
Selected == selOut # NoCall
GotByType == byTypeOut # NoCall

\* the fields of a returned ScenarioInfo that the claims name
Is(info, type, confirm, agents, steps) ==
    /\ info.scenario_type = type
    /\ info.requires_confirmation = confirm
    /\ info.max_agents = agents
    /\ info.estimated_steps = steps

Clamp(c) ==
    IF c < MinComplexity THEN MinComplexity
    ELSE IF c > MaxComplexity THEN MaxComplexity ELSE c

\* C13: for a complexity outside 1..10, select returns what it returns for
\* the complexity clamped into 1..10 (Prompt-Enhancement below 1, Lead-Member
\* above 10), an entry whose complexity_range holds the clamped value.
C13_OutOfRangeAsClamped ==
    (Selected /\ selIn.complexity \notin MinComplexity..MaxComplexity)
    => /\ selOut = Select(Clamp(selIn.complexity), selIn.text, selIn.flag)
       /\ selOut.complexity_range[1] <= Clamp(selIn.complexity)
       /\ Clamp(selIn.complexity) <= selOut.complexity_range[2]
       /\ selIn.complexity < MinComplexity => selOut.scenario_type = PROMPT_ENHANCEMENT
       /\ selIn.complexity > MaxComplexity => selOut.scenario_type = LEAD_MEMBER

\* C13 witness: select has returned for complexity 0 with a matching skill.
C13_Witness ==
    /\ Selected
    /\ selIn.complexity = 0
    /\ selIn.flag = "True"
    /\ selOut.scenario_type = PROMPT_ENHANCEMENT

\* ========================================================= workflow engine
\* One WorkflowManager used by one thread.  workflows_dir holds one workflow
\* definition under the name "wf"; the steps of a definition have the ids
\* 1, 2, ... in definition order.  A hook callback either returns or raises
\* an Exception and does nothing else to the manager; writing the session
\* file either succeeds or raises.  Timestamps are left out except for the
\* presence of end_time.

\* number of steps of a workflow definition
MaxSteps == 2
\* number of callbacks registered, over all events
MaxHooks == 2
\* number of calls that change self.sessions: create_session calls that
\* return and execute_workflow calls on existing sessions
MaxWfCalls == 3

\* a session id that self.sessions does not hold
GhostWfSession == MaxWfCalls + 1

\* Python's None, and a session dict without the key end_time
None == "None"
NoEndTime == "no end_time"

\* the action kinds of execute_step; "deploy" stands for every other string
StepActions == {"run_command", "generate_document", "notify", "verify", "deploy"}
\* params.type of a verify step; "checksum" stands for every other string
VerifyTypes == {"file_exists", "checksum"}

\* a step dict of a workflow definition
Step(id, action, type) == [id |-> id, action |-> action, params |-> [type |-> type]]

\* params: null in the workflow file: step.get('params', {}) is None
NullParams == [is_none |-> TRUE]
ParamsIsDict(step) == "type" \in DOMAIN step.params

\* execute_step lines 107-158, the body of the try statement: what the
\* handler of the step's action leaves in result (success, output, error)
\* and whether it raised, one element per outcome of the command, of the
\* file system, of the check
HandlerOutcomes(step) ==
    LET Returned(success, output, error) ==
            [raised |-> FALSE, success |-> success, output |-> output,
             error |-> error]
        \* raised before any key of result was assigned
        Raised(exception) ==
            [raised |-> TRUE, success |-> FALSE, output |-> None,
             error |-> exception]
    IN  CASE step.action \in {"run_command", "generate_document", "notify", "verify"}
             /\ ~ParamsIsDict(step) ->
                 { Raised("AttributeError") }                  \* None.get
          [] step.action = "run_command" ->
                 { Returned(TRUE, "stdout", None),             \* returncode 0
                   Returned(FALSE, "stdout", "stderr"),        \* returncode # 0
                   Raised("TimeoutExpired") }
          [] step.action = "generate_document" ->
                 { Returned(TRUE, "output_path", None),
                   Raised("OSError") }
          [] step.action = "notify" ->
                 { Returned(TRUE, "message", None) }
          [] step.action = "verify" ->
                 IF step.params.type = "file_exists"
                 THEN { Returned(TRUE, "file exists: True", None),
                        Returned(FALSE, "file exists: False", None) }
                 ELSE { Returned(TRUE, None, None) }
          [] OTHER ->
                 { Returned(FALSE, None, "unknown action") }

\* variant of StepResult: no except clause, the handler's exception leaves
\* execute_step
StepResultUncaught(step, outcome) ==
    IF outcome.raised
    THEN [raised |-> outcome.error]
    ELSE [step_id |-> step.id, action |-> step.action,
          success |-> outcome.success, output |-> outcome.output,
          error |-> outcome.error]

\* execute_step lines 99-105 and 160-164: the dict returned; an exception of
\* the handler is caught and becomes error, with success False
StepResult(step, outcome) ==
    [step_id |-> step.id, action |-> step.action,
     success |-> IF outcome.raised THEN FALSE ELSE outcome.success,
     output |-> outcome.output, error |-> outcome.error]

\* execute_step lines 95-164: the step results that executing the step can
\* give
ExecuteStep(step) == { StepResult(step, outcome) : outcome \in HandlerOutcomes(step) }

\* the workflow definitions run here: steps that can succeed or fail
\* (run_command) and steps that always succeed (notify)
WfStepShapes == {"run_command", "notify"}
RECURSIVE StepLists(_)
StepLists(n) ==
    IF n = 0 THEN { << >> }
    ELSE LET shorter == StepLists(n - 1)
         IN  shorter \cup
             { Append(steps, Step(Len(steps) + 1, a, "file_exists")) :
                 steps \in { l \in shorter : Len(l) = n - 1 }, a \in WfStepShapes }
WorkflowDefs == { [steps |-> steps] : steps \in StepLists(MaxSteps) }

\* load_workflow: the definition, or nothing when no file of that name exists
WorkflowNames == {"wf", "missing"}
NoWorkflow == << >>
LoadWorkflow(name) == IF name = "wf" THEN wfDef ELSE NoWorkflow
\* "not workflow": None or a dict without a key
Falsy(workflow) == DOMAIN workflow = {}

\* create_session lines 75-85: the new session dict
NewSession(sid, workflow) ==
    [id |-> sid, workflow |-> workflow, status |-> "created",
     steps_completed |-> << >>, steps_failed |-> << >>,
     outputs |-> << >>, errors |-> << >>, end_time |-> NoEndTime]

\* variant of RecordSuccess: the step's output is not stored
RecordSuccessNoOutput(session, result) ==
    [session EXCEPT !.steps_completed = Append(@, result.step_id)]

\* execute_workflow lines 184-185
RecordSuccess(session, result) ==
    [session EXCEPT !.steps_completed = Append(@, result.step_id),
                    !.outputs = (result.step_id :> result.output) @@ @]

\* execute_workflow lines 187-194
RecordFailure(session, result) ==
    [session EXCEPT !.steps_failed = Append(@, result.step_id),
                    !.errors = Append(@, [step |-> result.step_id,
                                          error |-> result.error]),
                    !.status = "failed"]

\* variant of MarkCompleted: the status is left as it is
MarkStillRunning(session) == [session EXCEPT !.end_time = "iso timestamp"]

\* execute_workflow lines 199-200
MarkCompleted(session) ==
    [session EXCEPT !.status = "completed", !.end_time = "iso timestamp"]

\* execute_workflow lines 209-215
Summary(session) ==
    [success |-> session.status = "completed", session_id |-> session.id,
     status |-> session.status,
     steps_completed |-> Len(session.steps_completed),
     steps_failed |-> Len(session.steps_failed)]

\* execute_workflow line 170
SessionNotFound == [success |-> FALSE, error |-> "session not found"]

\* what a run remembers of the session it started on
Snapshot(session) ==
    [status |-> session.status, steps_completed |-> session.steps_completed,
     steps_failed |-> session.steps_failed]

\* the callback that _run_hooks called last: the event, its position in
\* self.hooks[event] (the order of registration), whether it raised
NoCallback == [event |-> None]
Callback(event, index, raises) == [event |-> event, index |-> index, raised |-> raises]

\* the locals and the log of an execute_workflow call that has just begun
NewRun(sid, before) ==
    [pc |-> "pre_execute", sid |-> sid, before |-> before, i |-> 0,
     results |-> << >>, invoked |-> NoHooks, callback |-> NoCallback,
     hookRaised |-> FALSE, saved |-> "not yet", summary |-> None]

\* variant of AfterCallback: _run_hooks without try / except
AfterCallbackUncaught(run, event, raises) ==
    IF raises
    THEN [run EXCEPT !.invoked[event] = @ + 1, !.hookRaised = TRUE, !.pc = "raised",
                     !.callback = Callback(event, run.invoked[event] + 1, raises)]
    ELSE [run EXCEPT !.invoked[event] = @ + 1,
                     !.callback = Callback(event, run.invoked[event] + 1, raises)]

\* variant of AfterCallback: the try statement is around the for loop, a
\* callback that raises ends the loop
AfterCallbackEndsLoop(run, event, raises) ==
    [run EXCEPT !.invoked[event] = IF raises THEN wfHooks[event] ELSE @ + 1,
                !.hookRaised = @ \/ raises,
                !.callback = Callback(event, run.invoked[event] + 1, raises)]

\* _run_hooks lines 44-48: the for loop calls the next callback of the list;
\* what it raises is caught
AfterCallback(run, event, raises) ==
    [run EXCEPT !.invoked[event] = @ + 1, !.hookRaised = @ \/ raises,
                !.callback = Callback(event, run.invoked[event] + 1, raises)]

\* variant of AfterFailedStep: the loop goes on to the next step
AfterFailedStepContinue(run, result) ==
    [run EXCEPT !.results = Append(@, result), !.i = @ + 1]

\* execute_workflow lines 194-196: on_error hooks, then break
AfterFailedStep(run, result) ==
    [run EXCEPT !.results = Append(@, result), !.i = @ + 1, !.pc = "on_error"]

\* memory_dir after a failed _save_session: session-<id>.json is missing,
\* is the record of an earlier run, or is cut short; in no case the session
NotWritten == [written |-> FALSE]
\* the outcomes of _save_session: written; open() or json.dump raises
SaveOutcomes == {"ok", "raises"}

WfInit ==
    /\ SwarmInit
    /\ SelIdle
    /\ FnIdle
    /\ AsstIdle
    /\ RfxIdle
    /\ wfDef \in WorkflowDefs
    /\ wfHooks = NoHooks
    /\ wfSessions = << >>
    /\ wfFiles = << >>
    /\ wfRun = NoRun
    /\ wfCreated = NoCall
    /\ wfRegistered = NoCall
    /\ wfCalls = 0

\* an execute_workflow call is between its first and its last statement
MidRun == wfRun.pc \notin {"idle", "returned", "raised"}
TotalHooks ==
    wfHooks["pre_execute"] + wfHooks["post_execute"]
    + wfHooks["on_error"] + wfHooks["on_success"]
\* _run_hooks has called every callback of the event
HooksDone(event) == wfRun.invoked[event] = wfHooks[event]
\* the session of the current call
RunSession == wfSessions[wfRun.sid]

\* register_hook(event, callback); "on_cancel" stands for every other name
RegisterHook(event) ==
    /\ wfRun = NoRun
    /\ wfSessions = << >>
    /\ TotalHooks < MaxHooks
    /\ wfHooks' = IF event \in DOMAIN wfHooks
                  THEN [wfHooks EXCEPT ![event] = @ + 1]
                  ELSE wfHooks
    /\ wfCreated' = NoCall
    /\ wfRegistered' = [called |-> TRUE, event |-> event]
    /\ UNCHANGED <<wfDef, wfSessions, wfFiles, wfRun, wfCalls>>
    /\ UNCHANGED <<swarmVars, selVars, fnVars, asstVars, rfxVars>>

\* variant of FreshSessionId: the 8 characters kept of the uuid4 are those
\* of the first session
ReusedSessionId(sessions) == 1

\* create_session line 69: str(uuid.uuid4())[:8], an id that no session has
FreshSessionId(sessions) == Cardinality(DOMAIN sessions) + 1

\* create_session(workflow_name)
CreateSession(name) ==
    /\ ~MidRun
    /\ wfRegistered' = NoCall
    /\ LET workflow == LoadWorkflow(name)
           sid == FreshSessionId(wfSessions)
       IN  IF Falsy(workflow)
           THEN /\ wfCreated' = [called |-> TRUE, raised |-> "ValueError"]
                /\ UNCHANGED <<wfSessions, wfCalls>>
           ELSE /\ wfCalls < MaxWfCalls
                /\ wfSessions' = (sid :> NewSession(sid, workflow)) @@ wfSessions
                /\ wfCreated' = [called |-> TRUE, returned |-> sid]
                /\ wfCalls' = wfCalls + 1
    /\ UNCHANGED <<wfDef, wfHooks, wfFiles, wfRun>>
    /\ UNCHANGED <<swarmVars, selVars, fnVars, asstVars, rfxVars>>

\* execute_workflow(session_id), lines 168-170: no such session
ExecuteWorkflowNotFound ==
    /\ ~MidRun
    /\ GhostWfSession \notin DOMAIN wfSessions
    /\ wfRun' = [NewRun(GhostWfSession, [status |-> "missing"])
                   EXCEPT !.pc = "returned", !.summary = SessionNotFound]
    /\ wfCreated' = NoCall
    /\ wfRegistered' = NoCall
    /\ UNCHANGED <<wfDef, wfHooks, wfSessions, wfFiles, wfCalls>>
    /\ UNCHANGED <<swarmVars, selVars, fnVars, asstVars, rfxVars>>

\* execute_workflow(session_id), lines 168-173: the session exists
ExecuteWorkflowBegin(sid) ==
    /\ ~MidRun
    /\ wfCalls < MaxWfCalls
    /\ sid \in DOMAIN wfSessions
    /\ wfRun' = NewRun(sid, Snapshot(wfSessions[sid]))
    /\ wfCalls' = wfCalls + 1
    /\ wfCreated' = NoCall
    /\ wfRegistered' = NoCall
    /\ UNCHANGED <<wfDef, wfHooks, wfSessions, wfFiles>>
    /\ UNCHANGED <<swarmVars, selVars, fnVars, asstVars, rfxVars>>

\* _run_hooks(event, ...): the next callback of the event is called
RunHookCallback(event) ==
    /\ wfRun.pc = event
    /\ ~HooksDone(event)
    /\ \E raises \in BOOLEAN : wfRun' = AfterCallback(wfRun, event, raises)
    /\ UNCHANGED <<wfDef, wfHooks, wfSessions, wfFiles, wfCreated, wfRegistered, wfCalls>>
    /\ UNCHANGED <<swarmVars, selVars, fnVars, asstVars, rfxVars>>

\* execute_workflow line 178
SetRunning ==
    /\ wfRun.pc = "pre_execute"
    /\ HooksDone("pre_execute")
    /\ wfSessions' = [wfSessions EXCEPT ![wfRun.sid].status = "running"]
    /\ wfRun' = [wfRun EXCEPT !.pc = "steps"]
    /\ UNCHANGED <<wfDef, wfHooks, wfFiles, wfCreated, wfRegistered, wfCalls>>
    /\ UNCHANGED <<swarmVars, selVars, fnVars, asstVars, rfxVars>>

\* variant of NextStep: the loop takes the steps from the end of the list
NextStepFromEnd(steps, done) == steps[Len(steps) - done]

\* execute_workflow line 180: "for step in steps" after done passes
NextStep(steps, done) == steps[done + 1]

\* execute_workflow lines 180-196: one pass of the loop
ExecuteNextStep ==
    /\ wfRun.pc = "steps"
    /\ wfRun.i < Len(RunSession.workflow.steps)
    /\ \E result \in ExecuteStep(NextStep(RunSession.workflow.steps, wfRun.i)) :
         IF result.success
         THEN /\ wfSessions' = [wfSessions EXCEPT
                                  ![wfRun.sid] = RecordSuccess(@, result)]
              /\ wfRun' = [wfRun EXCEPT !.results = Append(@, result), !.i = @ + 1]
         ELSE /\ wfSessions' = [wfSessions EXCEPT
                                  ![wfRun.sid] = RecordFailure(@, result)]
              /\ wfRun' = AfterFailedStep(wfRun, result)
    /\ UNCHANGED <<wfDef, wfHooks, wfFiles, wfCreated, wfRegistered, wfCalls>>
    /\ UNCHANGED <<swarmVars, selVars, fnVars, asstVars, rfxVars>>

\* execute_workflow lines 198-200: the loop ended without a failed step
FinishSteps ==
    /\ wfRun.pc = "steps"
    /\ wfRun.i = Len(RunSession.workflow.steps)
    /\ RunSession.status = "running"
    /\ wfSessions' = [wfSessions EXCEPT ![wfRun.sid] = MarkCompleted(@)]
    /\ wfRun' = [wfRun EXCEPT !.pc = "on_success"]
    /\ UNCHANGED <<wfDef, wfHooks, wfFiles, wfCreated, wfRegistered, wfCalls>>
    /\ UNCHANGED <<swarmVars, selVars, fnVars, asstVars, rfxVars>>

\* control is at line 204: after the on_error or the on_success hooks, or
\* after the loop with a status other than running (line 198)
ReadyToSave ==
    \/ wfRun.pc \in {"on_error", "on_success"} /\ HooksDone(wfRun.pc)
    \/ /\ wfRun.pc = "steps"
       /\ wfRun.i = Len(RunSession.workflow.steps)
       /\ RunSession.status # "running"

\* execute_workflow line 204, _save_session: an exception raised by open()
\* or json.dump leaves execute_workflow
SaveSession ==
    /\ ReadyToSave
    /\ \E outcome \in SaveOutcomes :
         /\ wfFiles' = IF outcome = "ok"
                        THEN (wfRun.sid :> RunSession) @@ wfFiles
                        ELSE (wfRun.sid :> NotWritten) @@ wfFiles
         /\ wfRun' = IF outcome = "ok"
                     THEN [wfRun EXCEPT !.pc = "post_execute", !.saved = "ok"]
                     ELSE [wfRun EXCEPT !.pc = "raised", !.saved = "failed"]
    /\ UNCHANGED <<wfDef, wfHooks, wfSessions, wfCreated, wfRegistered, wfCalls>>
    /\ UNCHANGED <<swarmVars, selVars, fnVars, asstVars, rfxVars>>

\* execute_workflow lines 209-215
ReturnSummary ==
    /\ wfRun.pc = "post_execute"
    /\ HooksDone("post_execute")
    /\ wfRun' = [wfRun EXCEPT !.pc = "returned", !.summary = Summary(RunSession)]
    /\ UNCHANGED <<wfDef, wfHooks, wfSessions, wfFiles, wfCreated, wfRegistered, wfCalls>>
    /\ UNCHANGED <<swarmVars, selVars, fnVars, asstVars, rfxVars>>

WfNext ==
    \/ \E event \in HookEvents \cup {"on_cancel"} : RegisterHook(event)
    \/ \E name \in WorkflowNames : CreateSession(name)
    \/ ExecuteWorkflowNotFound
    \/ \E sid \in DOMAIN wfSessions : ExecuteWorkflowBegin(sid)
    \/ \E event \in HookEvents : RunHookCallback(event)
    \/ SetRunning
    \/ ExecuteNextStep
    \/ FinishSteps
    \/ SaveSession
    \/ ReturnSummary

WfSpec == WfInit /\ [][WfNext]_vars

\* the latest execute_workflow call was made on an existing session
RunOnSession == wfRun.pc # "idle" /\ wfRun.sid \in DOMAIN wfSessions
\* ... and it has returned or raised
RunEnded == wfRun.pc \in {"returned", "raised"}
\* ... and its session had not been executed before
FreshRun == wfRun.before.status = "created"
\* the step ids of a workflow definition, in definition order
StepIds(workflow) == [i \in 1..Len(workflow.steps) |-> workflow.steps[i].id]
\* the step_id of each step result
ResultIds(results) == [i \in 1..Len(results) |-> results[i].step_id]
Succeeded(result) == result.success
Failed(result) == ~result.success

\* C14: a session's status changes only created -> running, running ->
\* completed, running -> failed, and once it is completed or failed no step
\* of the engine changes the status, steps_completed or steps_failed.
C14_TerminalIsFinal ==
    [][\A sid \in DOMAIN wfSessions :
         LET old == wfSessions[sid]
             new == wfSessions'[sid]
         IN  /\ old.status # new.status
                  => <<old.status, new.status>>
                       \in {<<"created", "running">>, <<"running", "completed">>,
                            <<"running", "failed">>}
             /\ old.status \in {"completed", "failed"}
                  => /\ new.status = old.status
                     /\ new.steps_completed = old.steps_completed
                     /\ new.steps_failed = old.steps_failed]_vars

\* C15: in a run on a fresh session, once a step result is a failure it is
\* the last step executed in the run (no later step is executed), all step
\* results before it are successes, the session is failed, steps_completed
\* holds the ids of the steps before it in order, steps_failed holds its id
\* alone, and errors holds exactly one record, for that step.
C15_FailFast ==
    (RunOnSession /\ FreshRun)
    => \A k \in 1..Len(wfRun.results) :
         Failed(wfRun.results[k])
         => /\ k = Len(wfRun.results)
            /\ \A j \in 1..(k - 1) : Succeeded(wfRun.results[j])
            /\ RunSession.status = "failed"
            /\ RunSession.steps_completed
                 = SubSeq(StepIds(RunSession.workflow), 1, k - 1)
            /\ RunSession.steps_failed = <<StepIds(RunSession.workflow)[k]>>
            /\ RunSession.errors
                 = <<[step |-> StepIds(RunSession.workflow)[k],
                      error |-> wfRun.results[k].error]>>

\* C15 witness: a run on a fresh session with two steps has returned after
\* the first step failed.
C15_Witness ==
    /\ RunOnSession
    /\ FreshRun
    /\ wfRun.pc = "returned"
    /\ Len(RunSession.workflow.steps) = 2
    /\ Len(wfRun.results) = 1
    /\ Failed(wfRun.results[1])
    /\ RunSession.steps_failed = <<1>>

\* C16: in a run on a fresh session, once the loop over the steps has ended
\* with every step executed and successful (also for no steps), the session
\* is completed, has an end_time, steps_completed holds every step id in
\* definition order, steps_failed is empty, outputs holds the output of each
\* step under its id, and the summary, when the call returns one, has
\* success = TRUE.
C16_AllStepsSucceed ==
    ( /\ RunOnSession
      /\ FreshRun
      /\ wfRun.pc \in {"on_success", "post_execute", "returned", "raised"}
      /\ Len(wfRun.results) = Len(RunSession.workflow.steps)
      /\ \A k \in 1..Len(wfRun.results) : Succeeded(wfRun.results[k]) )
    => /\ RunSession.status = "completed"
       /\ RunSession.end_time # NoEndTime
       /\ RunSession.steps_completed = StepIds(RunSession.workflow)
       /\ RunSession.steps_failed = << >>
       /\ RunSession.errors = << >>
       /\ DOMAIN RunSession.outputs = { wfRun.results[k].step_id :
                                          k \in 1..Len(wfRun.results) }
       /\ \A k \in 1..Len(wfRun.results) :
            RunSession.outputs[wfRun.results[k].step_id] = wfRun.results[k].output
       /\ wfRun.pc = "returned"
            => /\ wfRun.summary.success = TRUE
               /\ wfRun.summary.status = "completed"
               /\ wfRun.summary.steps_completed = Len(RunSession.workflow.steps)
               /\ wfRun.summary.steps_failed = 0

\* C16 witness: a run on a fresh session with two steps has returned with
\* both steps successful.
C16_Witness ==
    /\ RunOnSession
    /\ FreshRun
    /\ wfRun.pc = "returned"
    /\ Len(RunSession.workflow.steps) = 2
    /\ Len(wfRun.results) = 2
    /\ Succeeded(wfRun.results[1])
    /\ Succeeded(wfRun.results[2])
    /\ wfRun.summary.success

\* C17: when an execute_workflow call on an existing session has ended,
\* every pre_execute and every post_execute callback has been invoked
\* exactly once in it, and of on_success / on_error exactly the set that
\* matches the session's status (on_success for completed, on_error for
\* failed) has been invoked, each callback once, the other set not at all.
C17_EveryHookSetOnce ==
    (RunOnSession /\ RunEnded)
    => /\ wfRun.invoked["pre_execute"] = wfHooks["pre_execute"]
       /\ wfRun.invoked["post_execute"] = wfHooks["post_execute"]
       /\ RunSession.status \in {"completed", "failed"}
       /\ RunSession.status = "completed"
            => /\ wfRun.invoked["on_success"] = wfHooks["on_success"]
               /\ wfRun.invoked["on_error"] = 0
       /\ RunSession.status = "failed"
            => /\ wfRun.invoked["on_error"] = wfHooks["on_error"]
               /\ wfRun.invoked["on_success"] = 0

\* what the steps executed in the run make of the session it started on
ExpectedStatus(results) ==
    IF \E k \in 1..Len(results) : Failed(results[k]) THEN "failed" ELSE "completed"
ExpectedCompleted(before, results) ==
    before.steps_completed \o ResultIds(SelectSeq(results, Succeeded))
ExpectedFailed(before, results) ==
    before.steps_failed \o ResultIds(SelectSeq(results, Failed))

\* C18: when an execute_workflow call on an existing session has ended,
\* whether or not callbacks raised in it, it has raised only if writing the
\* session file raised, and the session's status, steps_completed,
\* steps_failed and the summary returned are those that the session it
\* started on and the results of the steps executed determine: the same for
\* every choice of callbacks that raise, the empty choice included.
C18_HookFailuresChangeNothing ==
    (RunOnSession /\ RunEnded)
    => /\ wfRun.pc = "raised" <=> wfRun.saved = "failed"
       /\ RunSession.status = ExpectedStatus(wfRun.results)
       /\ RunSession.steps_completed
            = ExpectedCompleted(wfRun.before, wfRun.results)
       /\ RunSession.steps_failed = ExpectedFailed(wfRun.before, wfRun.results)
       /\ wfRun.pc = "returned"
            => wfRun.summary
                 = [success |-> ExpectedStatus(wfRun.results) = "completed",
                    session_id |-> wfRun.sid,
                    status |-> ExpectedStatus(wfRun.results),
                    steps_completed
                      |-> Len(ExpectedCompleted(wfRun.before, wfRun.results)),
                    steps_failed
                      |-> Len(ExpectedFailed(wfRun.before, wfRun.results))]

\* C18 witness: a call in which a pre_execute callback and an on_error
\* callback were invoked and a callback raised has returned, the session
\* failed.
C18_Witness ==
    /\ RunOnSession
    /\ wfRun.pc = "returned"
    /\ wfRun.hookRaised
    /\ wfRun.invoked["pre_execute"] = 1
    /\ wfRun.invoked["on_error"] = 1
    /\ RunSession.status = "failed"

\* C19: in an execute_workflow call on an existing session, a post_execute
\* callback is invoked only after the session file was written and after
\* the on_success / on_error callbacks, and when the call has ended the
\* session file holds the session with its terminal status and step lists
\* and every post_execute callback has been invoked.
C19_PersistedThenPostExecute ==
    RunOnSession
    => /\ wfRun.invoked["post_execute"] > 0
            => /\ wfRun.saved = "ok"
               /\ wfRun.invoked["on_success"] + wfRun.invoked["on_error"]
                    = IF RunSession.status = "completed"
                      THEN wfHooks["on_success"] ELSE wfHooks["on_error"]
       /\ RunEnded
            => /\ wfRun.sid \in DOMAIN wfFiles
               /\ wfFiles[wfRun.sid] = RunSession
               /\ RunSession.status \in {"completed", "failed"}
               /\ wfRun.invoked["post_execute"] = wfHooks["post_execute"]

\* C20: an execute_workflow call on an existing session never raises, and
\* what it returns is the summary of the session: success = (status =
\* completed), the status, the numbers of completed and of failed steps.
C20_AlwaysReturnsSummary ==
    RunOnSession
    => /\ wfRun.pc # "raised"
       /\ wfRun.pc = "returned"
            => /\ wfRun.summary = Summary(RunSession)
               /\ wfRun.summary.success = (RunSession.status = "completed")

\* ================================== execute_step and load_workflow alone
\* the action kinds with a handler
KnownActions == {"run_command", "generate_document", "notify", "verify"}

\* the step dicts handed to execute_step: every action kind, a verify step
\* of either type, and each kind with params: null
FnSteps ==
    { Step(1, a, "file_exists") : a \in StepActions }
    \cup { Step(1, "verify", t) : t \in VerifyTypes }
    \cup { [id |-> 1, action |-> a, params |-> NullParams] : a \in StepActions }

\* execute_step(session_id, step), lines 91-164, the handler's outcome given
ExecuteStepWith(exists, step, outcome) ==
    IF ~exists
    THEN [success |-> FALSE, error |-> "session not found"]
    ELSE StepResult(step, outcome)

\* the three files that load_workflow(name) looks for, in its order
Extensions == <<".yaml", ".yml", ".json">>
Absent == [exists |-> FALSE]
Unparsable == [exists |-> TRUE, parses |-> FALSE]
Parsed(content) == [exists |-> TRUE, parses |-> TRUE, content |-> content]
\* what parsing a file gives: nothing (an empty YAML file, "{}"), or one of
\* two definitions
EmptyDoc == << >>
Docs == { EmptyDoc, [name |-> "A", steps |-> << >>], [name |-> "B", steps |-> << >>] }
FileStates == {Absent, Unparsable} \cup { Parsed(d) : d \in Docs }

\* variant of LoadFrom: the first file that exists decides; when it cannot
\* be parsed nothing is returned
RECURSIVE LoadFirstExisting(_, _)
LoadFirstExisting(files, i) ==
    IF i > Len(Extensions) THEN NoWorkflow
    ELSE LET file == files[Extensions[i]]
         IN  IF file.exists
             THEN IF file.parses THEN file.content ELSE NoWorkflow
             ELSE LoadFirstExisting(files, i + 1)

\* load_workflow lines 52-65, from the i-th extension on: a file that
\* exists and parses is returned; one that does not parse is logged and the
\* loop goes on
RECURSIVE LoadFrom(_, _)
LoadFrom(files, i) ==
    IF i > Len(Extensions) THEN NoWorkflow
    ELSE LET file == files[Extensions[i]]
         IN  IF file.exists /\ file.parses
             THEN file.content
             ELSE LoadFrom(files, i + 1)

\* create_session lines 70-73: the lookup and its test
Lookup(files) ==
    LET workflow == LoadFrom(files, 1)
    IN  [workflow |-> workflow,
         error |-> IF Falsy(workflow) THEN "ValueError" ELSE None]

FnInit ==
    /\ SwarmInit
    /\ SelIdle
    /\ WfIdle
    /\ AsstIdle
    /\ RfxIdle
    /\ \E exists \in BOOLEAN, step \in FnSteps :
         \E outcome \in HandlerOutcomes(step) :
           stepIn = [exists |-> exists, step |-> step, outcome |-> outcome]
    /\ stepOut = NoCall
    /\ lookupIn \in [{Extensions[i] : i \in 1..Len(Extensions)} -> FileStates]
    /\ lookupOut = NoCall

\* the call execute_step(session_id, step)
ExecuteStepCall ==
    /\ stepOut = NoCall
    /\ stepOut' = ExecuteStepWith(stepIn.exists, stepIn.step, stepIn.outcome)
    /\ UNCHANGED <<stepIn, lookupIn, lookupOut>>
    /\ UNCHANGED <<swarmVars, selVars, wfVars, asstVars, rfxVars>>

\* the call load_workflow(name) at the head of create_session(name)
LookupCall ==
    /\ lookupOut = NoCall
    /\ lookupOut' = Lookup(lookupIn)
    /\ UNCHANGED <<stepIn, stepOut, lookupIn>>
    /\ UNCHANGED <<swarmVars, selVars, wfVars, asstVars, rfxVars>>

FnNext == ExecuteStepCall \/ LookupCall

FnSpec == FnInit /\ [][FnNext]_vars

\* execute_step has ended / the lookup has ended
StepCalled == stepOut # NoCall
LookedUp == lookupOut # NoCall

\* C21: execute_step on an existing session, given a step dict, returns a
\* result and does not raise; for an unknown action kind, for a handler that
\* raised (I/O error, command timeout, params that is no dict) and for a
\* command with a non-zero exit the result has success = FALSE and an error
\* that is not None; and success = TRUE only when the step's action has a
\* handler, the handler did not raise, and its success condition held.
C21_StepFailuresAreResults ==
    (StepCalled /\ stepIn.exists)
    => /\ "success" \in DOMAIN stepOut
       /\ "success" \in DOMAIN stepOut =>
            /\ ( \/ stepIn.step.action \notin KnownActions
                 \/ stepIn.outcome.raised
                 \/ /\ stepIn.step.action = "run_command"
                    /\ ~stepIn.outcome.success )
               => (stepOut.success = FALSE /\ stepOut.error # None)
            /\ stepOut.success = TRUE
               => /\ stepIn.step.action \in KnownActions
                  /\ ~stepIn.outcome.raised
                  /\ stepIn.outcome.success

\* C21 witness: execute_step has returned a failed result for a run_command
\* step whose command ran into its timeout.
C21_Witness ==
    /\ StepCalled
    /\ stepIn.exists
    /\ stepIn.step.action = "run_command"
    /\ stepIn.outcome.raised
    /\ stepOut.success = FALSE
    /\ stepOut.error = "TimeoutExpired"

Existing(files) == { i \in 1..Len(Extensions) : files[Extensions[i]].exists }
Parsing(files) == { i \in Existing(files) : files[Extensions[i]].parses }
First(positions) == CHOOSE i \in positions : \A j \in positions : i <= j

\* C23 (as claimed): the definition that the lookup returns is the content
\* of the first of the three files that exists, and the lookup fails exactly
\* when no file exists or none of the existing files can be parsed.
C23_FirstExistingFileWins ==
    LookedUp
    => /\ lookupOut.error = None
            => /\ Existing(lookupIn) # {}
               /\ lookupIn[Extensions[First(Existing(lookupIn))]].parses
               /\ lookupOut.workflow
                    = lookupIn[Extensions[First(Existing(lookupIn))]].content
       /\ lookupOut.error # None <=> Parsing(lookupIn) = {}

\* C23 (amended): the files are tried in the order .yaml, .yml, .json and
\* the first one that exists and parses decides: the lookup returns its
\* content when that is not empty, and fails exactly when no file exists
\* and parses or the first that does is empty.
C23_FirstParsableFileWins ==
    LookedUp
    => /\ lookupOut.error = None
            => /\ Parsing(lookupIn) # {}
               /\ lookupOut.workflow
                    = lookupIn[Extensions[First(Parsing(lookupIn))]].content
               /\ ~Falsy(lookupOut.workflow)
       /\ lookupOut.error # None
            <=> \/ Parsing(lookupIn) = {}
                \/ Falsy(lookupIn[Extensions[First(Parsing(lookupIn))]].content)

\* C23 witness: the .yaml file exists and cannot be parsed, the .json file
\* holds a definition, and the lookup has returned that definition.
C23_Witness ==
    /\ LookedUp
    /\ lookupIn[".yaml"] = Unparsable
    /\ lookupIn[".yml"] = Absent
    /\ lookupIn[".json"] = Parsed([name |-> "B", steps |-> << >>])
    /\ lookupOut.error = None
    /\ lookupOut.workflow = [name |-> "B", steps |-> << >>]

\* ======================================================== swarm fan-out
\* The queue with workers that do what the fan-out asks of them: a worker
\* calls complete_task for a task that get_parallel_subtasks returns (a
\* pending task of the committed table), so that one call commits per task,
\* and goes on doing so; a call that has begun runs to its end; the store
\* raises nothing but the busy timeout.  The sessions created hold no more
\* tasks than complete_task calls may commit.

\* create_swarm_session, for lists whose tasks can all be completed
FanOutCreate(c, main, subtasks) ==
    /\ nextTid + Len(subtasks) <= MaxCalls + 1
    /\ CreateInsertSession(c, main, subtasks)

\* a worker calls complete_task for a task that get_parallel_subtasks
\* returns for the task's session
WorkerCompletes(c, tid, r) ==
    /\ tid \in DOMAIN store.tasks
    /\ \E row \in SelectPending(store, store.tasks[tid].parent_id) :
         row.task_id = tid
    /\ CompleteUpdateTask(c, tid, r)

\* the steps inside a call that has begun
CallProceeds(c) ==
    \/ CreateInsertTask(c)
    \/ CreateKeyError(c)
    \/ CreateCommit(c)
    \/ CompleteIncrement(c)
    \/ CompleteCommit(c)
    \/ DropConnection(c)

\* some worker begins a complete_task call
WorkersAct == \E c \in Conns, tid \in DOMAIN store.tasks, r \in Results :
                  WorkerCompletes(c, tid, r)

FanOutNext ==
    \/ \E c \in Conns, main \in MainTasks, subtasks \in SubtaskLists :
         FanOutCreate(c, main, subtasks)
    \/ \E c \in Conns, sid \in KnownSessionIds : GetParallelSubtasks(c, sid)
    \/ WorkersAct
    \/ \E c \in Conns : BusyTimeout(c)
    \/ \E c \in Conns : CallProceeds(c)

FanOutSpec ==
    /\ Init
    /\ [][FanOutNext]_vars
    /\ WF_vars(WorkersAct)
    /\ \A c \in Conns : WF_vars(CallProceeds(c))

\* get_parallel_subtasks returns the empty list for the session and the
\* session's counter has reached subtask_count
FanOutDone(sid) ==
    /\ sid \in DOMAIN store.sessions
    /\ SelectPending(store, sid) = {}
    /\ store.sessions[sid].completed_count = store.sessions[sid].subtask_count

\* C24: with workers that call complete_task once for every task that
\* get_parallel_subtasks returns, every session that is created reaches the
\* point where get_parallel_subtasks returns the empty list and
\* completed_count = subtask_count, and stays there for ever.
C24_FanOutCompletes ==
    \A sid \in SessionIds :
        (sid \in DOMAIN store.sessions) ~> [] FanOutDone(sid)

\* C24 witness: get_parallel_subtasks has just returned the empty list for
\* a session of two tasks, both completed by the workers, the counter at 2.
C24_Witness ==
    \E sid \in DOMAIN store.sessions :
        /\ store.sessions[sid].subtask_count = 2
        /\ FanOutDone(sid)
        /\ \A t \in TasksOf(store, sid) : CallsOn(t) = 1
        /\ lastRead = [sid |-> sid, rows |-> {}, returned |-> TRUE]

\* a step of the run calls a callback of the event
CallsBack(event) ==
    /\ wfRun.pc = event
    /\ wfRun'.pc # "idle"
    /\ wfRun'.callback # wfRun.callback \/ wfRun'.invoked # wfRun.invoked

\* C25: execute_workflow moves the session to running before the
\* pre_execute hooks run: every pre_execute callback is called while the
\* session's status is running (never created), and no step is executed
\* before all pre_execute callbacks have been called.
C25_RunningBeforePreExecute ==
    [][/\ CallsBack("pre_execute") => RunSession.status = "running"
       /\ (wfRun'.pc # "idle" /\ wfRun'.results # << >>)
            => wfRun'.invoked["pre_execute"] = wfHooks'["pre_execute"]]_vars

\* is the sequence a prefix of the other
IsPrefix(short, long) ==
    /\ Len(short) <= Len(long)
    /\ short = SubSeq(long, 1, Len(short))

\* C26: steps are executed strictly in definition order: in a run on a
\* fresh session, at every point steps_completed followed by steps_failed is
\* a prefix of the workflow's step ids, steps_failed holds at most one id,
\* the steps executed so far are exactly those, in that order, and a step
\* is started only after every step before it returned success.
C26_StepsInOrder ==
    (RunOnSession /\ FreshRun)
    => LET recorded == RunSession.steps_completed \o RunSession.steps_failed
       IN  /\ IsPrefix(recorded, StepIds(RunSession.workflow))
           /\ Len(RunSession.steps_failed) <= 1
           /\ ResultIds(wfRun.results) = recorded
           /\ \A k \in 1..(Len(wfRun.results) - 1) : Succeeded(wfRun.results[k])

\* C26 witness: in a run on a fresh session with two steps the second step
\* was executed after the first succeeded, and it failed.
C26_Witness ==
    /\ RunOnSession
    /\ FreshRun
    /\ Len(RunSession.workflow.steps) = 2
    /\ Len(wfRun.results) = 2
    /\ Succeeded(wfRun.results[1])
    /\ Failed(wfRun.results[2])
    /\ RunSession.steps_completed = <<StepIds(RunSession.workflow)[1]>>
    /\ RunSession.steps_failed = <<StepIds(RunSession.workflow)[2]>>

\* C27: hook fan-out is in registration order and isolated: when an event's
\* hook set runs, the callbacks registered for it are called once each, in
\* the order of registration (the callback called is the next of the list,
\* starting from the first, and the set is left only after the last), a
\* callback that raises does not keep the later ones from being called, and
\* register_hook for an event outside the four known events registers
\* nothing, while for a known event it adds one callback at the end.
C27_HooksInOrderIsolated ==
    [][/\ \A event \in HookEvents :
            /\ (wfRun.pc # event /\ wfRun'.pc = event)
                 => wfRun'.invoked[event] = 0
            /\ CallsBack(event)
                 => /\ wfRun.invoked[event] < wfHooks[event]
                    /\ wfRun'.callback.event = event
                    /\ wfRun'.callback.index = wfRun.invoked[event] + 1
                    /\ wfRun'.invoked[event] = wfRun.invoked[event] + 1
                    /\ wfRun'.pc = event
            /\ (wfRun.pc = event /\ wfRun'.pc # event)
                 => wfRun.invoked[event] = wfHooks[event]
       /\ wfRegistered'.called
            => wfHooks' = IF wfRegistered'.event \in HookEvents
                          THEN [wfHooks EXCEPT ![wfRegistered'.event] = @ + 1]
                          ELSE wfHooks]_vars

\* C27 witness: two callbacks are registered for pre_execute, the first
\* raised and the second has been called after it.
C27_Witness ==
    /\ wfRun.pc = "pre_execute"
    /\ wfHooks["pre_execute"] = 2
    /\ wfRun.invoked["pre_execute"] = 2
    /\ wfRun.hookRaised
    /\ wfRun.callback = Callback("pre_execute", 2, FALSE)

\* execute_workflow is one thread of control: a call that has begun takes its
\* next step, since every handler, callback and save returns or raises
RunProceeds ==
    \/ \E event \in HookEvents : RunHookCallback(event)
    \/ SetRunning
    \/ ExecuteNextStep
    \/ FinishSteps
    \/ SaveSession
    \/ ReturnSummary

WfLiveSpec == WfInit /\ [][WfNext]_vars /\ WF_vars(RunProceeds)

\* the session of the latest call is completed or failed
RunSessionTerminal == RunSession.status \in {"completed", "failed"}

\* C28: every execute_workflow call on an existing session ends (it returns
\* or raises) with the session completed or failed, each step being executed
\* at most once with an outcome (a run_command that exceeds its timeout
\* fails with TimeoutExpired and is not executed again), and the session is
\* not running once the call has ended.
C28_RunTerminates ==
    /\ (RunOnSession /\ MidRun) ~> (RunOnSession /\ RunEnded /\ RunSessionTerminal)
    /\ [](RunOnSession /\ RunEnded => RunSessionTerminal)
    /\ [](RunOnSession => Len(wfRun.results) <= Len(RunSession.workflow.steps))

\* C28 witness: a call has returned with the session failed after its
\* run_command step exceeded the timeout.
C28_Witness ==
    /\ RunOnSession
    /\ wfRun.pc = "returned"
    /\ RunSession.status = "failed"
    /\ Len(wfRun.results) = 1
    /\ wfRun.results[1].action = "run_command"
    /\ wfRun.results[1].error = "TimeoutExpired"

\* a session row with its completed_count left out
WithoutCount(session) == [session EXCEPT !.completed_count = 0]

\* C29: complete_task(t, result) for a task t of session S changes only t's
\* row, and of it only status and result, and S's completed_count: every
\* other task row, every other session row and S's subtask_count, main_task
\* and status are as before, no row is added or removed, and nothing
\* changes in the store before the commit of the call or when the call
\* raises; get_parallel_subtasks changes nothing in the store.
C29_CompleteTaskFrame ==
    [][/\ \A c \in Conns :
            /\ pc'[c] = "ct_select" => store' = store
            /\ (pc[c] \in {"ct_select", "ct_commit"} /\ ~CompleteCommits(c))
                 => store' = store
            /\ CompleteCommits(c)
                 => LET t == arg[c].task_id
                    IN  /\ DOMAIN store'.tasks = DOMAIN store.tasks
                        /\ DOMAIN store'.sessions = DOMAIN store.sessions
                        /\ \A u \in DOMAIN store.tasks :
                              store'.tasks[u]
                                = IF u = t
                                  THEN [store.tasks[u] EXCEPT
                                          !.status = COMPLETED,
                                          !.result = arg[c].result]
                                  ELSE store.tasks[u]
                        /\ \A sid \in DOMAIN store.sessions :
                              IF t \in DOMAIN store.tasks
                                 /\ sid = store.tasks[t].parent_id
                              THEN WithoutCount(store'.sessions[sid])
                                     = WithoutCount(store.sessions[sid])
                              ELSE store'.sessions[sid] = store.sessions[sid]
       /\ lastRead'.returned => UNCHANGED <<store, txn, lock>>]_vars

\* C29 witness: there are two sessions; one task of the first session, which
\* has two, is completed by a committed call, the other task rows are
\* pending and the second session's counter is 0.
C29_Witness ==
    /\ DOMAIN store.sessions = {1, 2}
    /\ store.sessions[1].subtask_count = 2
    /\ store.sessions[1].completed_count = 1
    /\ store.sessions[2].completed_count = 0
    /\ \E t \in TasksOf(store, 1) :
         /\ committedCalls[t] = 1
         /\ store.tasks[t].status = COMPLETED
         /\ store.tasks[t].result \in Results
         /\ \A u \in DOMAIN store.tasks \ {t} : store.tasks[u].status = PENDING
    /\ TasksOf(store, 2) # {}

\* C30: for every swarm session, completed_count is 0 when the session is
\* created and never decreases in any step, and subtask_count is, when the
\* session is created, the number of subtasks passed to
\* create_swarm_session, never changes afterwards, and is always the number
\* of task rows whose parent_id is the session.
C30_CountersMonotone ==
    [][/\ \A sid \in DOMAIN store.sessions :
            /\ sid \in DOMAIN store'.sessions
            /\ store'.sessions[sid].subtask_count = store.sessions[sid].subtask_count
            /\ store'.sessions[sid].completed_count
                 >= store.sessions[sid].completed_count
       /\ \A sid \in DOMAIN store'.sessions \ DOMAIN store.sessions :
            /\ store'.sessions[sid].completed_count = 0
            /\ \E c \in Conns :
                 /\ CreateCommits(c)
                 /\ arg[c].sid = sid
                 /\ store'.sessions[sid].subtask_count = Len(arg[c].subtasks)
       /\ \A sid \in DOMAIN store'.sessions :
            store'.sessions[sid].subtask_count
              = Cardinality(TasksOf(store', sid))]_vars

\* C30 witness: a session created with two subtasks has two task rows, its
\* subtask_count is 2 and its completed_count has gone from 0 to 2.
C30_Witness ==
    \E sid \in DOMAIN store.sessions :
        /\ store.sessions[sid].subtask_count = 2
        /\ Cardinality(TasksOf(store, sid)) = 2
        /\ store.sessions[sid].completed_count = 2
        /\ TotalCalls = 2

\* the task ids of the rows that get_parallel_subtasks(sid) returns
HandedOut(db, sid) == {row.task_id : row \in SelectPending(db, sid)}

\* C31: every task row is pending or completed (no operation writes running
\* or failed), so for every session the tasks that get_parallel_subtasks
\* returns and the completed tasks partition the session's tasks; a pending
\* task stays pending in every step that is not the commit of a
\* complete_task call for it, and every get_parallel_subtasks call for its
\* session, by any caller, returns it as long as no such call has committed.
C31_PendingOrCompleted ==
    [][/\ \A t \in DOMAIN store'.tasks :
            store'.tasks[t].status \in {PENDING, COMPLETED}
       /\ \A sid \in DOMAIN store'.sessions :
            /\ HandedOut(store', sid) \cup CompletedOf(store', sid)
                 = TasksOf(store', sid)
            /\ HandedOut(store', sid) \cap CompletedOf(store', sid) = {}
       /\ \A t \in DOMAIN store.tasks :
            (/\ store.tasks[t].status = PENDING
             /\ ~\E c \in Conns : CompleteCommits(c) /\ arg[c].task_id = t)
            => store'.tasks[t].status = PENDING
       /\ lastRead'.returned
            => \A t \in TasksOf(store', lastRead'.sid) :
                 CallsOn(t) = 0 => t \in {row.task_id : row \in lastRead'.rows}
      ]_vars

\* C31 witness: a session has three tasks, one is completed, and
\* get_parallel_subtasks has just returned the two others, one of them while
\* another caller is inside an uncommitted complete_task call for it.
C31_Witness ==
    /\ lastRead.returned
    /\ Cardinality(TasksOf(store, lastRead.sid)) = 3
    /\ Cardinality(CompletedOf(store, lastRead.sid)) = 1
    /\ Cardinality(lastRead.rows) = 2
    /\ \E c \in Conns :
         /\ pc[c] = "ct_commit"
         /\ arg[c].task_id \in {row.task_id : row \in lastRead.rows}

\* ============================================== complete_task, any database
\* The tasks table declares parent_id without NOT NULL (line 47), and
\* create_swarm_session never leaves it NULL: a row without a parent is a row
\* that something else wrote to the database file.  CompleteSpec starts from
\* a database of one session whose tasks table holds such rows too, and
\* makes complete_task calls on it.
StoredTaskIds == 1..MaxCalls

\* a task row as it can be found in the table
StoredRows ==
    {[parent_id |-> parent, status |-> PENDING, worker_type |-> "coder",
      result |-> NULL] : parent \in {1, NoParent}}
    \cup {[parent_id |-> parent, status |-> COMPLETED, worker_type |-> "coder",
           result |-> "r0"] : parent \in {1, NoParent}}

\* the database with these task rows: the counters of session 1 are those of
\* its own tasks
StoreWith(rows) ==
    [sessions |-> (1 :> [main_task |-> "main",
                         subtask_count |->
                           Cardinality({t \in DOMAIN rows : rows[t].parent_id = 1}),
                         completed_count |->
                           Cardinality({t \in DOMAIN rows :
                                          /\ rows[t].parent_id = 1
                                          /\ rows[t].status = COMPLETED}),
                         status |-> "running"]),
     tasks |-> rows]

StoredDatabases ==
    {StoreWith(rows) : rows \in UNION {[ids -> StoredRows] : ids \in SUBSET StoredTaskIds}}

CompleteInit ==
    /\ store \in StoredDatabases
    /\ txn = [c \in Conns |-> NoTxn]
    /\ lock = {}
    /\ pc = [c \in Conns |-> "idle"]
    /\ arg = [c \in Conns |-> NoArg]
    /\ nextSid = 2
    /\ nextTid = MaxCalls + 1
    /\ lastRead = NoRead
    /\ committedCalls = [t \in TaskIds |-> 0]
    /\ abortedSids = {}
    /\ SelIdle
    /\ WfIdle
    /\ FnIdle
    /\ AsstIdle
    /\ RfxIdle

CompleteNext ==
    \/ \E c \in Conns, tid \in KnownTaskIds, r \in Results : CompleteUpdateTask(c, tid, r)
    \/ \E c \in Conns : CompleteIncrement(c)
    \/ \E c \in Conns : CompleteCommit(c)
    \/ \E c \in Conns : BusyTimeout(c)
    \/ \E c \in Conns : StatementRaises(c)
    \/ \E c \in Conns : DropConnection(c)

CompleteSpec == CompleteInit /\ [][CompleteNext]_vars

\* caller c is inside complete_task, after its first UPDATE
InComplete(c) == pc[c] \in {"ct_select", "ct_commit"}
\* ... with a task id that is in no row
UnknownTask(c) == InComplete(c) /\ arg[c].task_id \notin DOMAIN store.tasks
\* ... with the id of a task whose parent_id is NULL
OrphanTask(c) ==
    /\ InComplete(c)
    /\ arg[c].task_id \in DOMAIN store.tasks
    /\ store.tasks[arg[c].task_id].parent_id = NoParent

\* C32: a complete_task call with a task id that is in no row writes nothing
\* (its transaction holds the committed database as it is, and its commit
\* leaves both tables unchanged: no task row added or changed, no counter
\* incremented), and the call goes on to its commit and returns, no error is
\* raised for the unknown id; and a call for a task whose parent_id is NULL
\* leaves every session row, so every completed_count, unchanged.
C32_UnknownTaskChangesNothing ==
    [][\A c \in Conns :
         /\ UnknownTask(c)
              => /\ txn[c] = store
                 /\ store' = store
                 /\ pc[c] = "ct_select" => ENABLED CompleteIncrement(c)
                 /\ pc[c] = "ct_commit" => ENABLED CompleteCommit(c)
         /\ OrphanTask(c)
              => /\ txn[c].sessions = store.sessions
                 /\ store'.sessions = store.sessions]_vars

\* C32 witness: a call for a task without a parent has committed, the task
\* is completed and the session's counter is still 0 with a task of its own
\* pending, and a call with an unknown task id is at its commit.
C32_Witness ==
    /\ \E t \in DOMAIN store.tasks :
         /\ store.tasks[t].parent_id = NoParent
         /\ CallsOn(t) = 1
         /\ store.tasks[t].status = COMPLETED
         /\ store.tasks[t].result \in Results
    /\ store.sessions[1].completed_count = 0
    /\ PendingOf(store, 1) # {}
    /\ \E c \in Conns : UnknownTask(c) /\ pc[c] = "ct_commit"

\* ================================================== the scenario catalog
\* the complexity is within the complexity_range of the descriptor
InRange(complexity, info) ==
    /\ info.complexity_range[1] <= complexity
    /\ complexity <= info.complexity_range[2]

\* the catalog has the five ranges 1-2, 3-5, 3-5, 6-10, 6-10, which leave no
\* complexity of the scale without an entry and hold none outside it
CoversScale(catalog) ==
    /\ DOMAIN catalog = ScenarioType
    /\ catalog[PROMPT_ENHANCEMENT].complexity_range = <<1, 2>>
    /\ catalog[SKILL_REUSE].complexity_range = <<3, 5>>
    /\ catalog[PLAN_REVIEW].complexity_range = <<3, 5>>
    /\ catalog[LEAD_MEMBER].complexity_range = <<6, 10>>
    /\ catalog[COMPOSITE].complexity_range = <<6, 10>>
    /\ \A c \in MinComplexity..MaxComplexity :
         \E type \in DOMAIN catalog : InRange(c, catalog[type])
    /\ \A type \in DOMAIN catalog :
         /\ MinComplexity <= catalog[type].complexity_range[1]
         /\ catalog[type].complexity_range[2] <= MaxComplexity

\* C33: the catalog covers complexity 1..10 with no gap (ranges 1-2, 3-5,
\* 3-5, 6-10, 6-10); for every complexity in 1..10 and every flag the
\* descriptor that select returns is a catalog entry whose complexity_range
\* contains the complexity; no call of select, get_scenario_by_type or
\* get_all_scenarios changes the catalog; and select returns the same
\* descriptor for every task text and for every flag with the same truth
\* value.
C33_CatalogCoversAndSelectInRange ==
    [][/\ selCatalog' = selCatalog
       /\ CoversScale(selCatalog')
       /\ allOut'.called => allOut'.returned = selCatalog
       /\ Selected'
            => /\ selIn'.complexity \in MinComplexity..MaxComplexity
                    => /\ InRange(selIn'.complexity, selOut')
                       /\ selOut' = selCatalog'[selOut'.scenario_type]
               /\ \A text \in TaskTexts, flag \in SkillFlags :
                    Truthy(flag) = Truthy(selIn'.flag)
                    => selOut' = Select(selIn'.complexity, text, flag)]_vars

\* C33 witness: select, get_scenario_by_type and get_all_scenarios have all
\* been called, select with complexity 6, no flag and the longer text, and
\* the catalog is the static one.
C33_Witness ==
    /\ Selected
    /\ GotByType
    /\ allOut.called
    /\ selIn.complexity = 6
    /\ selIn.flag = "None"
    /\ selIn.text = "build the whole system"
    /\ InRange(6, selOut)
    /\ selCatalog = SCENARIOS

\* ====================================================== analysis engine
\* A task description is modelled by what the engine reads of it: the task
\* type that _identify_task_type finds, the number of step indicators in it,
\* the three keyword tests of lines 117-119, its length, and whether a
\* best_for keyword of a builtin agent occurs in it.

\* _load_patterns: the keys of task_patterns, and 'general'
TaskTypes ==
    {"web_development", "api_development", "data_analysis", "automation",
     "content_creation", "documentation", "general"}

\* task_patterns.get(task_type, {}).get('complexity_base', 3)
ComplexityBase(task_type) ==
    CASE task_type = "web_development" -> 4
      [] task_type = "api_development" -> 5
      [] task_type = "data_analysis" -> 5
      [] task_type = "automation" -> 4
      [] task_type = "content_creation" -> 4
      [] task_type = "documentation" -> 3
      [] OTHER -> 3

\* step indicators found: none, one, three; len(task): below the two
\* thresholds, between them, above both
StepCounts == {0, 1, 3}
TextLengths == {50, 150, 250}

TaskDescriptions ==
    [task_type : TaskTypes, step_count : StepCounts, integrates : BOOLEAN,
     multi_module : BOOLEAN, from_scratch : BOOLEAN, length : TextLengths,
     agent_keyword : BOOLEAN]

\* _calculate_complexity_enhanced lines 110-122
Modifiers(task) ==
    (IF task.step_count >= 1 THEN 1 ELSE 0)
    + (IF task.step_count >= 3 THEN 1 ELSE 0)
    + (IF task.integrates THEN 1 ELSE 0)
    + (IF task.multi_module THEN 2 ELSE 0)
    + (IF task.from_scratch THEN 2 ELSE 0)
    + (IF task.length > 100 THEN 1 ELSE 0)
    + (IF task.length > 200 THEN 1 ELSE 0)

\* variant of CalculateComplexityEnhanced: return int(base + modifiers)
CalculateComplexityUnclamped(task, task_type) ==
    ComplexityBase(task_type) + Modifiers(task)

\* _calculate_complexity_enhanced
CalculateComplexityEnhanced(task, task_type) ==
    Clamp(ComplexityBase(task_type) + Modifiers(task))

\* _identify_task_type
IdentifyTaskType(task) == task.task_type

\* SkillDiscovery.discover: best_match is the first builtin agent matched,
\* or else the fallback match; it is never None
Discover(task, task_type) ==
    [best_match |->
        IF task.agent_keyword
        THEN [name |-> "builtin agent", source |-> "builtin"]
        ELSE [name |-> "autonomous-agent", source |-> "fallback"],
     fallback_used |-> ~task.agent_keyword]

\* "best_match is not None": Optional[SkillMatch], None being the empty record
IsNotNone(match) == DOMAIN match # {}

\* a Python bool as an argument of select
PyBool(b) == IF b THEN "True" ELSE "False"

\* IntelligentAssistant.analyze
Analyze(task) ==
    LET task_type == IdentifyTaskType(task)
        complexity == CalculateComplexityEnhanced(task, task_type)
        skill_result == Discover(task, task_type)
        has_matching_skill == /\ IsNotNone(skill_result.best_match)
                              /\ skill_result.best_match.source # "fallback"
        scenario == Select(complexity, task, PyBool(has_matching_skill))
    IN  [execution_mode |-> IF complexity >= 6 THEN "swarm" ELSE "single_agent",
         complexity_score |-> complexity,
         task_type |-> task_type,
         scenario |-> scenario.scenario_type,
         requires_confirmation |-> scenario.requires_confirmation,
         source |-> skill_result.best_match.source]

\* IntelligentAssistant.get_scenario_for_task
GetScenarioForTask(task) ==
    LET task_type == IdentifyTaskType(task)
        complexity == CalculateComplexityEnhanced(task, task_type)
        skill_result == Discover(task, task_type)
        has_skill == IsNotNone(skill_result.best_match)
        scenario == Select(complexity, task, PyBool(has_skill))
    IN  [task_type |-> task_type,
         complexity |-> complexity,
         scenario |-> scenario.scenario_type,
         requires_confirmation |-> scenario.requires_confirmation,
         best_skill |-> skill_result.best_match.name]

AsstInit ==
    /\ SwarmInit
    /\ SelIdle
    /\ WfIdle
    /\ FnIdle
    /\ RfxIdle
    /\ asstIn \in TaskDescriptions
    /\ analyzeOut = NoCall
    /\ forTaskOut = NoCall

\* the call analyze(task_description)
AnalyzeCall ==
    /\ analyzeOut = NoCall
    /\ analyzeOut' = Analyze(asstIn)
    /\ UNCHANGED <<asstIn, forTaskOut>>
    /\ UNCHANGED <<swarmVars, selVars, wfVars, fnVars, rfxVars>>

\* the call get_scenario_for_task(task_description)
ForTaskCall ==
    /\ forTaskOut = NoCall
    /\ forTaskOut' = GetScenarioForTask(asstIn)
    /\ UNCHANGED <<asstIn, analyzeOut>>
    /\ UNCHANGED <<swarmVars, selVars, wfVars, fnVars, rfxVars>>

AsstNext == AnalyzeCall \/ ForTaskCall

AsstSpec == AsstInit /\ [][AsstNext]_vars

\* analyze has returned / get_scenario_for_task has returned
Analyzed == analyzeOut # NoCall
GotForTask == forTaskOut # NoCall

\* C34: in analyze the complexity handed to select, which is the
\* complexity_score reported, is within 1..10; execution_mode is 'swarm'
\* exactly when the scenario selected is lead_member, which is exactly when
\* complexity_score >= 6, and 'single_agent' otherwise; and
\* requires_confirmation is true exactly in swarm mode.
C34_SwarmIffLeadMember ==
    Analyzed
    => /\ analyzeOut.complexity_score \in MinComplexity..MaxComplexity
       /\ analyzeOut.execution_mode \in {"swarm", "single_agent"}
       /\ analyzeOut.execution_mode = "swarm" <=> analyzeOut.scenario = LEAD_MEMBER
       /\ analyzeOut.execution_mode = "swarm" <=> analyzeOut.complexity_score >= 6
       /\ analyzeOut.requires_confirmation <=> analyzeOut.execution_mode = "swarm"

\* C34 witness: analyze has returned swarm mode with lead_member for an API
\* task whose base plus modifiers is 14, reported as 10.
C34_Witness ==
    /\ Analyzed
    /\ ComplexityBase(asstIn.task_type) + Modifiers(asstIn) = 14
    /\ analyzeOut.complexity_score = 10
    /\ analyzeOut.execution_mode = "swarm"
    /\ analyzeOut.scenario = LEAD_MEMBER
    /\ analyzeOut.requires_confirmation

\* C35: for every task description, get_scenario_for_task and analyze select
\* the same scenario, also when skill discovery yields the fallback match
\* only.
C35_SameScenario ==
    (Analyzed /\ GotForTask)
    => /\ analyzeOut.complexity_score = forTaskOut.complexity
       /\ analyzeOut.scenario = forTaskOut.scenario

\* ===================================================== error-fix memory
\* number of record_fix calls
MaxRecords == 3

ErrorTexts == {"e1", "e2", "e3"}
FixTexts == {"f1", "f2"}

\* class MemoryType, in the order of "for mt in MemoryType"
MemoryType == <<"sessions", "tasks", "errors", "global">>
\* WriteTrigger.ERROR_OCCURRED.value, WriteTrigger.ERROR_FIXED.value
ERROR_OCCURRED == "error_occurred"
ERROR_FIXED == "error_fixed"

\* the strings that are hashed: an error text as it is, and the two note
\* bodies that record_error_and_fix formats
Text(text) == [format |-> "text", text |-> text]
ErrorNote(error_message) == [format |-> "error note", text |-> error_message]
FixNote(fix) == [format |-> "fix note", text |-> fix]

\* hashlib.md5(content.encode()).hexdigest()[:8]: strings that differ have
\* digests that differ
Md5Prefix(content) == [md5 |-> content]

\* memory_dir / directory / f"{note_id}.md"
NotePath(directory, note_id) == [directory |-> directory, note_id |-> note_id]

\* MemoryManager.write_note: the note is appended to the file named by the
\* trigger's value and the digest of the content
WriteNote(files, trigger, content) ==
    LET note_path == NotePath(trigger, Md5Prefix(content))
    IN  IF note_path \in DOMAIN files
        THEN [files EXCEPT ![note_path] = Append(@, content)]
        ELSE (note_path :> <<content>>) @@ files

\* MemoryManager.read_note from the i-th MemoryType on: the content of the
\* first file that exists, or << >> for None
RECURSIVE ReadNoteFrom(_, _, _)
ReadNoteFrom(files, note_id, i) ==
    IF i > Len(MemoryType) THEN << >>
    ELSE IF NotePath(MemoryType[i], note_id) \in DOMAIN files
         THEN files[NotePath(MemoryType[i], note_id)]
         ELSE ReadNoteFrom(files, note_id, i + 1)

ReadNote(files, note_id) == ReadNoteFrom(files, note_id, 1)

\* MemoryManager.get_error_fix: the dict, or << >> for None
GetErrorFix(files, error_message) ==
    LET error_sig == Md5Prefix(Text(error_message))
        content == ReadNote(files, error_sig)
    IN  IF content # << >>
        THEN [error_signature |-> error_sig, full_note |-> content]
        ELSE << >>

\* MemoryManager.record_error_and_fix
RecordErrorAndFix(files, error_message, fix) ==
    WriteNote(WriteNote(files, ERROR_OCCURRED, ErrorNote(error_message)),
              ERROR_FIXED, FixNote(fix))

\* ReflexionCore.reflect
Reflect(files, error_log) ==
    LET fix == GetErrorFix(files, error_log)
    IN  IF DOMAIN fix # {}
        THEN [action |-> "apply_known_fix", fix |-> "",
              error_signature |-> fix.error_signature, source |-> "memory"]
        ELSE [action |-> "analyze", fix |-> "analysis needed",
              source |-> "inference"]

RfxInit ==
    /\ SwarmInit
    /\ SelIdle
    /\ WfIdle
    /\ FnIdle
    /\ AsstIdle
    /\ RfxIdle

\* the call record_fix(error_message, fix_solution)
RecordFixCall(error_message, fix_solution) ==
    /\ rfxCalls < MaxRecords
    /\ memFiles' = RecordErrorAndFix(memFiles, error_message, fix_solution)
    /\ rfxRecorded' = rfxRecorded \cup {error_message}
    /\ rfxCalls' = rfxCalls + 1
    /\ reflectOut' = NoCall
    /\ UNCHANGED <<swarmVars, selVars, wfVars, fnVars, asstVars>>

\* the call reflect(error_log)
ReflectCall(error_log) ==
    /\ reflectOut' = [called |-> TRUE, error |-> error_log,
                      result |-> Reflect(memFiles, error_log)]
    /\ UNCHANGED <<memFiles, rfxRecorded, rfxCalls>>
    /\ UNCHANGED <<swarmVars, selVars, wfVars, fnVars, asstVars>>

RfxNext ==
    \/ \E error_message \in ErrorTexts, fix_solution \in FixTexts :
         RecordFixCall(error_message, fix_solution)
    \/ \E error_log \in ErrorTexts : ReflectCall(error_log)

RfxSpec == RfxInit /\ [][RfxNext]_vars

\* C36: error-fix round trip: a reflect(e) call made after record_fix(e, f)
\* returns action 'apply_known_fix' with source 'memory', and reflect
\* returns action 'analyze' only for an error text for which no fix has
\* been recorded.
C36_FixRoundTrip ==
    reflectOut.called
    => /\ reflectOut.error \in rfxRecorded
            => /\ reflectOut.result.action = "apply_known_fix"
               /\ reflectOut.result.source = "memory"
       /\ reflectOut.result.action = "analyze"
            => reflectOut.error \notin rfxRecorded

====
